---- MODULE Spec2Model ----
(***************************************************************************)
(* Duty-cycle firmware of the water tank sensor node: the wake cycle of    *)
(* crates/app/src/main.rs (main, main_fallible), the WiFi connection       *)
(* manager of crates/app/src/wifi.rs (connect_to_wifi, connect_to_network, *)
(* disconnect_from_wifi, wifi_monitor_task_with_channel) and the deep      *)
(* sleep entry of crates/app/src/sleep.rs.                                 *)
(*                                                                         *)
(* The orchestrator is one cooperative task; pc is its position.  The      *)
(* monitor task and the network (station state, link, DHCP address) move   *)
(* between the orchestrator's suspension points.                           *)
(*                                                                         *)
(* The HTTP logger of crates/app/src/logging.rs (store_log, take_logs,     *)
(* logger_task, send_logs_to_server) is specified on its own by LogSpec,   *)
(* and the monitor channel on its own by ChanSpec.  The clock of           *)
(* crates/app/src/clock.rs is specified by ClockSpec.                      *)
(***************************************************************************)
EXTENDS Integers, Sequences, FiniteSets, TLC

\* ---------------------------------------------------------------- constants
WIFI_RECONNECT_ATTEMPTS == 3
MAX_DISCONNECT_RETRIES == 3
MAX_CONSECUTIVE_FAILURES == 2
MONITOR_CHANNEL_CAPACITY == 1
BASE_RETRY_INTERVAL == 10000
MAX_RETRY_INTERVAL == 600000
LOGGER_COMMAND_CAPACITY == 4

\* ------------------------------------------------------------------- bounds
\* Number of wake cycles explored.
MaxBoots == 2

\* Results published to the channel in the channel specification.
MaxPublished == 4

\* Capacity of the log ring and of the staging batch (100 in the firmware).
MAX_STORED_LOGS == 3

\* Entries serialized into one POST (10 in the firmware).
BatchLimit == 2

\* Log entries written over all wake cycles.
MaxLogs == 4

\* Consecutive failed deliveries explored.
MaxFailures == 6

\* Logger commands sent in one wake cycle.
MaxCommands == 2

\* Deep sleeps of the logger explored.
MaxLogCycles == 1

\* Number of values of the u64 counters of the clock (2^64 in the firmware).
Modulus == 32

\* Largest epoch the time server answers with.
MaxEpoch == 4

\* Seconds a wake cycle lasts at most.
MaxUptime == 3

\* Longest expected sleep duration and longest deep sleep, in seconds.
MaxSleep == 2

\* Deep sleeps of the clock explored.
MaxClockCycles == 1

\* Longest of the small wakeup periods, in seconds.
MaxPeriod == 4

\* Largest of the small epochs a wakeup is computed from.
MaxNow == 20

\* Distinct log entries take_logs is tried with.
MaxEntryKinds == 2

\* Largest max_count take_logs is tried with.
MaxTake == 4

\* Largest boot_count a device reports.
MaxBootCount == 2

\* Largest uptime of a device when it logs or reports its ticks, in ms.
MaxStamp == 2

\* Age of the latest synchronization from which the clock counts as stale.
SyncInterval == 4

\* Deep sleeps of the acquisition pipeline that are followed.
MaxSensorCycles == 1

\* Calls of disconnect_from_wifi on one controller that are followed.
MaxInvocations == 3

VARIABLES
    pc,                   \* position of the orchestrator task
    bootCount,            \* BOOT_COUNT in RTC fast memory
    bootCountAtWake,      \* history: BOOT_COUNT when this cycle woke
    steps,                \* history: orchestrator steps of this cycle, in order
    started,              \* WifiController started (radio on)
    connected,            \* station state of the controller is Connected
    linkUp,               \* stack.is_link_up()
    hasAddress,           \* stack.config_v4() is Some
    observedDisconnected, \* history: latest status observation said "not connected"
    attempts,             \* connect_to_wifi: attempts
    attemptLog,           \* history: what the current attempt has done, in order
    wifiResult,           \* return value of connect_to_wifi
    connectCalls,         \* history: calls of connect_to_network in this cycle
    retries,              \* disconnect_from_wifi: retries
    disconnectCalls,      \* history: calls of controller.disconnect() in this cycle
    disconnectResult,     \* return value of disconnect_from_wifi
    invocations,          \* history: calls of disconnect_from_wifi in this cycle
    previousResult,       \* history: what the call before this one returned, "none" if none
    firstStatus,          \* history: the first is_connected() of this call, "none" if none
    lastStatus,           \* history: the latest status this call got, "none" if none
    callsAtStart,         \* history: disconnectCalls when this call began
    monPc,                \* monitor task: "none", "polling", "exited"
    consecutive_failures, \* monitor task: consecutive_failures
    channel,              \* WIFI_MONITOR_RESULT_CHANNEL
    lastPolls,            \* history: the latest MAX_CONSECUTIVE_FAILURES poll results
    published,            \* history: messages handed to try_send in this cycle
    loggerResult,         \* result of setup_logging
    timingResult,         \* result of send_timing_data
    sensorResult,         \* result of read_sensor_data
    metricsResult,        \* result of send_metrics_to_server
    lastCheck,            \* wifi_status_result
    flushResults,         \* results of the send_logs_to_server calls of this cycle
    ring,                 \* HttpLogger.log_buffer, oldest entry first
    temp,                 \* logger_task: temp_log_buffer
    retry_interval,       \* logger_task: retry_interval
    network_available,    \* logger_task: network_available
    shutdown_requested,   \* logger_task: shutdown_requested
    sinceAttempt,         \* current_time - last_send_attempt, rounded down to a retry interval
    commands,             \* LOGGER_COMMAND_CHANNEL
    commandsSent,         \* history: commands sent in this wake cycle
    lpc,                  \* position of logger_task
    takeCount,            \* take_logs: count
    tlog,                 \* a task's store_log call: "idle", or "push" before push_back
    pending,              \* the entry of that call
    nextId,               \* history: number of the next log entry
    bootFirst,            \* history: nextId when this wake cycle began
    delivered,            \* history: entries of the POSTs that succeeded
    failures,             \* history: failed deliveries since the latest success
    sinceBase,            \* history: failed deliveries since retry_interval was set to base
    cycle,                \* history: wake cycles of the logger so far
    status,               \* LOGGER_STATUS_SIGNAL: the value signalled last
    intervalAfter,        \* history: retry_interval when the latest delivery attempt was over
    taken,                \* a take_logs call on its own: arguments and results, or NoTake
    overflowChecks,       \* the build panics on integer overflow (debug) or wraps (release)
    uptime,               \* Instant::now().as_secs()
    rtcEpoch,             \* BOOT_TIME.0
    rtcOffset,            \* BOOT_TIME.1
    clock,                \* the Clock of this wake cycle, or NoClock
    clockSource,          \* history: "none", "server" or "rtc"
    clockPanicked,        \* Clock::new panicked
    lastNow,              \* history: latest value of now_as_epoch of this clock, -1 if none
    savedNow,             \* history: now_as_epoch() in the latest save_to_rtc_memory, -1 if none
    savedSleep,           \* history: expected sleep duration of that call
    savedOffset,          \* history: offset of the clock saved by that call
    restoredAt,           \* history: uptime when from_rtc_memory made this clock
    sinceSync,            \* history: seconds since the latest from_server, at most SyncInterval
    wakeup,               \* history: arguments and result of the next_rounded_wakeup just made
    clkCycle,             \* history: deep sleeps of the clock so far
    senPc,                \* position of read_sensor_data_task
    bmeInitFailed,        \* history: initialize_bme280 returned Err
    bmeCollected,         \* collected_data of read_bme280
    bmeFailed,            \* history: failed samples of the BME280
    bmeData,              \* the averaged Bme280Data, or NoData
    adsRateFailed,        \* history: set_data_rate returned Err
    adsRangeFailed,       \* history: set_full_scale_range returned Err
    a2Diff,               \* |24 V - pressure sensor voltage|, in hundredths of a volt
    stable_count,         \* stable_count of the stabilization wait
    polls,                \* history: the latest STABLE_POLLS voltage differences polled
    stable,               \* history: the stabilization wait returned Ok
    adsCollected,         \* collected_data of read_ads1115
    adsFailed,            \* history: failed samples of the ADS1115
    adsData,              \* the averaged Ads1115Data, or NoData
    adsResult,            \* history: "none", "Ok" or the SensorError of read_ads1115
    sensorChannel,        \* the Channel of readings, capacity 3
    sentReadings,         \* history: readings sent, in order
    receivedReadings,     \* history: readings received, in order
    updatePc,             \* position of update_task
    senCycle,             \* history: deep sleeps of the acquisition so far
    request,              \* collector: the sensor-data request just handled, or NoRequest
    validation,           \* collector: what SensorData::validate returned for it, "none" if not called
    httpStatus,           \* collector: the status code of the answer, 0 before any request
    device_time_mappings, \* collector: AppState.device_time_mappings
    translation           \* collector: what handle_log_data did with the latest log request

bootVars  == <<bootCount, bootCountAtWake>>
radioVars == <<started, connected, linkUp, hasAddress>>
wifiVars  == <<attempts, attemptLog, wifiResult, connectCalls>>
discVars  == <<retries, disconnectCalls, disconnectResult, invocations, previousResult,
              firstStatus, lastStatus, callsAtStart>>
monVars   == <<monPc, consecutive_failures, channel, lastPolls, published>>
resVars   == <<loggerResult, timingResult, sensorResult, metricsResult, lastCheck,
              flushResults>>

logVars   == <<ring, temp, retry_interval, network_available, shutdown_requested,
              sinceAttempt, commands, commandsSent, lpc, takeCount, tlog, pending,
              nextId, bootFirst, delivered, failures, sinceBase, cycle, status,
              intervalAfter, taken>>

clkVars   == <<overflowChecks, uptime, rtcEpoch, rtcOffset, clock, clockSource,
              clockPanicked, lastNow, savedNow, savedSleep, savedOffset, restoredAt,
              sinceSync, wakeup, clkCycle>>

mainVars == <<pc, bootVars, steps, radioVars, observedDisconnected, wifiVars,
              discVars, monVars, resVars>>

senVars   == <<senPc, bmeInitFailed, bmeCollected, bmeFailed, bmeData, adsRateFailed,
              adsRangeFailed, a2Diff, stable_count, polls, stable, adsCollected,
              adsFailed, adsData, adsResult, sensorChannel, sentReadings,
              receivedReadings, updatePc, senCycle>>

valVars   == <<request, validation, httpStatus, device_time_mappings, translation>>

vars == <<mainVars, logVars, clkVars, senVars, valVars>>

\* ------------------------------------------------------------- construction
\* State of a freshly woken device: RAM is cleared, only BOOT_COUNT survives.
Fresh(bc) ==
    /\ pc = "boot"
    /\ bootCount = bc
    /\ bootCountAtWake = bc
    /\ steps = <<>>
    /\ started = FALSE
    /\ connected = FALSE
    /\ linkUp = FALSE
    /\ hasAddress = FALSE
    /\ observedDisconnected = FALSE
    /\ attempts = 0
    /\ attemptLog = <<>>
    /\ wifiResult = "none"
    /\ connectCalls = 0
    /\ retries = 0
    /\ disconnectCalls = 0
    /\ disconnectResult = "none"
    /\ invocations = 0
    /\ previousResult = "none"
    /\ firstStatus = "none"
    /\ lastStatus = "none"
    /\ callsAtStart = 0
    /\ monPc = "none"
    /\ consecutive_failures = 0
    /\ channel = <<>>
    /\ lastPolls = <<>>
    /\ published = <<>>
    /\ loggerResult = "none"
    /\ timingResult = "none"
    /\ sensorResult = "none"
    /\ metricsResult = "none"
    /\ lastCheck = "none"
    /\ flushResults = <<>>

\* No Clock has been made in this wake cycle.
NoClock == [boot_time |-> -1, offset |-> 0]

\* No next_rounded_wakeup has just been computed.
NoWakeup == [now |-> -1, period |-> 0, then |-> -1, duration |-> 0]

\* The clock side of a freshly woken device: the tick counter starts at 0 and
\* there is no Clock yet.
ClockFresh ==
    /\ uptime = 0
    /\ clock = NoClock
    /\ clockSource = "none"
    /\ clockPanicked = FALSE
    /\ lastNow = -1
    /\ restoredAt = 0
    /\ wakeup = NoWakeup

\* No take_logs call has been looked at.
NoTake == [count |-> -1]

\* The logger after setup: HttpLogger::new() and the locals of logger_task.
LoggerFresh ==
    /\ ring = <<>>
    /\ temp = <<>>
    /\ retry_interval = BASE_RETRY_INTERVAL
    /\ network_available = FALSE
    /\ shutdown_requested = FALSE
    /\ sinceAttempt = 0
    /\ commands = <<>>
    /\ commandsSent = 0
    /\ lpc = "l_loop"
    /\ takeCount = 0
    /\ tlog = "idle"
    /\ pending = 0
    /\ status = "Idle"
    /\ intervalAfter = BASE_RETRY_INTERVAL
    /\ taken = NoTake

\* No request has been handled.
NoRequest == [kind |-> "none"]

\* The devices that report to the collector.
Devices == {"tank", "well"}

\* device_time_mappings has no entry for the device.
NoMapping == [boot_count |-> 0, first_tick |-> -1]

\* No log request has been handled.
NoTranslation == [kind |-> "none"]

\* A reading that has not been produced.
NoData == [none |-> TRUE]

\* PRESSURE_SENSOR_VOLTAGE_STABILIZATION target: `stable_count == 10`.
STABLE_POLLS == 10

\* The tolerance `diff < 0.2`, in hundredths of a volt.
TOLERANCE == 20

\* |EXPECTED_PRESSURE_SENSOR_VOLTAGE - pressure_sensor_voltage| in hundredths
\* of a volt: just inside and exactly on the tolerance.
Diffs == {19, 20}

\* The acquisition task and the consumer at the start of a wake cycle: nothing
\* read, the pressure sensor off, the channel of readings empty.
SensorFresh ==
    /\ senPc = "bme_init"
    /\ bmeInitFailed = FALSE
    /\ bmeCollected = <<>>
    /\ bmeFailed = 0
    /\ bmeData = NoData
    /\ adsRateFailed = FALSE
    /\ adsRangeFailed = FALSE
    /\ a2Diff = TOLERANCE
    /\ stable_count = 0
    /\ polls = <<>>
    /\ stable = FALSE
    /\ adsCollected = <<>>
    /\ adsFailed = 0
    /\ adsData = NoData
    /\ adsResult = "none"
    /\ sensorChannel = <<>>
    /\ sentReadings = <<>>
    /\ receivedReadings = <<>>
    /\ updatePc = "waiting"


Init ==
    /\ Fresh(0)
    /\ LoggerFresh
    /\ nextId = 1
    /\ bootFirst = 1
    /\ delivered = {}
    /\ failures = 0
    /\ sinceBase = 0
    /\ cycle = 0
    /\ ClockFresh
    /\ overflowChecks \in BOOLEAN
    /\ rtcEpoch = 0
    /\ rtcOffset = 0
    /\ savedNow = -1
    /\ savedSleep = 0
    /\ savedOffset = 0
    /\ sinceSync = SyncInterval
    /\ clkCycle = 0
    /\ SensorFresh
    /\ senCycle = 0
    /\ request = NoRequest
    /\ validation = "none"
    /\ httpStatus = 0
    /\ device_time_mappings = [d \in Devices |-> NoMapping]
    /\ translation = NoTranslation

\* ---------------------------------------------------------------- helpers
\* Outcomes of controller.is_connected() for a given station state:
\* Ok(true), Ok(false), Err(WifiError::Disconnected), any other Err.
IsConnectedResults(conn) ==
    IF conn THEN {"true", "ErrOther"}
            ELSE {"false", "ErrDisconnected", "ErrOther"}

\* The observation says the controller is not connected.
SaysDisconnected(r) == r \in {"false", "ErrDisconnected"}

\* Variant: only ConnectionFailure is treated as a failure.
CheckWifiStatus_Lenient(ch) ==
    IF ch = <<>> THEN "Ok"
    ELSE IF Head(ch) \in {"Success", "InternalError"} THEN "Ok" ELSE "Err"

\* check_wifi_status: Ok unless a non-Success result is in the channel.
CheckWifiStatus(ch) ==
    IF ch = <<>> THEN "Ok"
    ELSE IF Head(ch) = "Success" THEN "Ok" ELSE "Err"

\* try_receive takes the head of the channel if there is one.
TryReceive(ch) == IF ch = <<>> THEN ch ELSE Tail(ch)

\* Variant: a send replaces what the slot holds.
TrySend_Overwrite(ch, m) == <<m>>

\* try_send drops the message when the channel is full.
TrySend(ch, m) == IF Len(ch) < MONITOR_CHANNEL_CAPACITY THEN Append(ch, m) ELSE ch

\* enter_deep: the device sleeps; the call never returns.  st are the steps
\* the cycle has taken so far.
EnterDeepSleep(st) ==
    /\ pc' = "asleep"
    /\ steps' = Append(st, "Asleep")

\* Call of disconnect_wifi_and_put_device_to_sleep: disconnect_from_wifi starts.
StartDisconnect(st) ==
    /\ pc' = "d_check"
    /\ steps' = Append(st, "Disconnect")
    /\ retries' = 0
    /\ invocations' = invocations + 1
    /\ previousResult' = disconnectResult
    /\ callsAtStart' = disconnectCalls
    /\ UNCHANGED <<disconnectCalls, disconnectResult, firstStatus, lastStatus>>

\* --------------------------------------------------------------------- main
\* Variant: the counter is set to 1 instead of incremented.
NextBootCount_Set(bc) == 1

\* *boot_count += 1
NextBootCount(bc) == bc + 1

\* Variant: the result of setup_logging is not checked.
AfterSetupLogging_Unchecked(result) == "credentials"

\* Where main goes after setup_logging.
AfterSetupLogging(result) == IF result = "Err" THEN "asleep" ELSE "credentials"

\* main: increment BOOT_COUNT, set up logging, sleep when that fails.
MainBoot ==
    /\ pc = "boot"
    /\ bootCount' = NextBootCount(bootCount)
    /\ \E r \in {"Ok", "Err"} :
          /\ loggerResult' = r
          /\ pc' = AfterSetupLogging(r)
          /\ steps' = IF AfterSetupLogging(r) = "asleep"
                         THEN <<"Boot", "Asleep">>
                         ELSE <<"Boot", "LoggingReady">>
    /\ UNCHANGED <<bootCountAtWake, radioVars, observedDisconnected, wifiVars, discVars,
                   monVars, timingResult, sensorResult, metricsResult, lastCheck,
                   flushResults>>
    /\ UNCHANGED <<logVars, clkVars, senVars, valVars>>

\* main_fallible: SSID / password must fit their buffers, else sleep.
MainCredentials ==
    /\ pc = "credentials"
    /\ \E valid \in BOOLEAN :
          IF valid
            THEN /\ pc' = "w_create"
                 /\ steps' = Append(steps, "WifiConnect")
            ELSE EnterDeepSleep(steps)
    /\ UNCHANGED <<bootVars, radioVars, observedDisconnected, wifiVars, discVars,
                   monVars, resVars>>
    /\ UNCHANGED <<logVars, clkVars, senVars, valVars>>

\* ---------------------------------------------------------- connect_to_wifi
\* Variant: off-by-one loop condition.
MoreAttempts_Inclusive(a) == a <= WIFI_RECONNECT_ATTEMPTS

\* while attempts < WIFI_RECONNECT_ATTEMPTS
MoreAttempts(a) == a < WIFI_RECONNECT_ATTEMPTS

\* The attempt is over without success: attempts += 1, then either the retry
\* delay and the next attempt, or the exhaustion error.
AttemptFailed ==
    /\ attempts' = attempts + 1
    /\ IF MoreAttempts(attempts + 1)
         THEN /\ pc' = "w_attempt"
              /\ wifiResult' = wifiResult
         ELSE /\ pc' = "w_returned"
              /\ wifiResult' = "WifiConnectionFailed"

\* create_controller_and_stack, then the spawn of wifi_management_task.
WifiCreate ==
    /\ pc = "w_create"
    /\ \E r \in {"Ok", "CreateErr", "SpawnErr"} :
          /\ pc' = IF r = "Ok" THEN "w_attempt" ELSE "w_returned"
          /\ wifiResult' = CASE r = "Ok" -> "none"
                              [] r = "CreateErr" -> "WifiConnectionFailed"
                              [] r = "SpawnErr" -> "NetworkTaskSpawnFailed"
    /\ attempts' = 0
    /\ UNCHANGED <<bootVars, steps, radioVars, observedDisconnected, attemptLog,
                   connectCalls, discVars, monVars, resVars>>
    /\ UNCHANGED <<logVars, clkVars, senVars, valVars>>

\* connect_to_network, first half: start the controller unless is_started()
\* says Ok(true); set_configuration or start_async may fail.
WifiStartRadio ==
    /\ pc = "w_attempt"
    /\ MoreAttempts(attempts)
    /\ connectCalls' = connectCalls + 1
    /\ \E saysStarted \in (IF started THEN BOOLEAN ELSE {FALSE}) :
       \E startOk \in BOOLEAN :
          IF saysStarted \/ startOk
            THEN /\ started' = TRUE
                 /\ attemptLog' = <<"started">>
                 /\ pc' = "w_connect"
                 /\ UNCHANGED <<attempts, wifiResult>>
            ELSE /\ started' = started
                 /\ attemptLog' = <<>>
                 /\ AttemptFailed
    /\ UNCHANGED <<bootVars, steps, connected, linkUp, hasAddress, observedDisconnected,
                   discVars, monVars, resVars>>
    /\ UNCHANGED <<logVars, clkVars, senVars, valVars>>

\* connect_to_network, second half: connect_async.
WifiConnect ==
    /\ pc = "w_connect"
    /\ \E ok \in BOOLEAN :
          IF ok
            THEN /\ connected' = TRUE
                 /\ observedDisconnected' = FALSE
                 /\ attemptLog' = Append(attemptLog, "connect_ok")
                 /\ pc' = "w_link"
                 /\ UNCHANGED <<attempts, wifiResult>>
            ELSE /\ AttemptFailed
                 /\ UNCHANGED <<connected, observedDisconnected, attemptLog>>
    /\ UNCHANGED <<bootVars, steps, started, linkUp, hasAddress, connectCalls,
                   discVars, monVars, resVars>>
    /\ UNCHANGED <<logVars, clkVars, senVars, valVars>>

\* loop { if stack.is_link_up() { break; } Timer::after(500 ms) }: the check.
WifiWaitLink ==
    /\ pc = "w_link"
    /\ IF linkUp
         THEN /\ pc' = "w_addr"
              /\ attemptLog' = Append(attemptLog, "link_up")
         ELSE /\ pc' = "w_link_timer"
              /\ UNCHANGED attemptLog
    /\ UNCHANGED <<bootVars, steps, radioVars, observedDisconnected, attempts, wifiResult,
                   connectCalls, discVars, monVars, resVars>>
    /\ UNCHANGED <<logVars, clkVars, senVars, valVars>>

\* loop { if let Some(config) = stack.config_v4() { break; } Timer::after(500 ms) }:
\* the check.
WifiWaitAddress ==
    /\ pc = "w_addr"
    /\ IF hasAddress
         THEN /\ pc' = "w_delay"
              /\ attemptLog' = Append(attemptLog, "address")
         ELSE /\ pc' = "w_addr_timer"
              /\ UNCHANGED attemptLog
    /\ UNCHANGED <<bootVars, steps, radioVars, observedDisconnected, attempts, wifiResult,
                   connectCalls, discVars, monVars, resVars>>
    /\ UNCHANGED <<logVars, clkVars, senVars, valVars>>

\* Timer::after(500 ms) of either poll loop elapses and the loop starts over.
WifiPollTimer ==
    /\ pc \in {"w_link_timer", "w_addr_timer"}
    /\ pc' = IF pc = "w_link_timer" THEN "w_link" ELSE "w_addr"
    /\ UNCHANGED <<bootVars, steps, radioVars, observedDisconnected, wifiVars, discVars,
                   monVars, resVars>>
    /\ UNCHANGED <<logVars, clkVars, senVars, valVars>>

\* Timer::after(WIFI_RECONNECT_DELAY_MS) before the verification.
WifiStabilize ==
    /\ pc = "w_delay"
    /\ pc' = "w_verify"
    /\ attemptLog' = Append(attemptLog, "delay")
    /\ UNCHANGED <<bootVars, steps, radioVars, observedDisconnected, attempts, wifiResult,
                   connectCalls, discVars, monVars, resVars>>
    /\ UNCHANGED <<logVars, clkVars, senVars, valVars>>

\* Variant: only Ok(false) fails the attempt, an error passes as connected.
VerifySucceeds_Lenient(r) == r # "false"

\* match controller.is_connected(): only Ok(true) ends the attempt with success.
VerifySucceeds(r) == r = "true"

\* What a status observation r does to the record of the latest observation.
Observe(r) == IF r = "ErrOther" THEN observedDisconnected ELSE SaysDisconnected(r)

WifiVerify ==
    /\ pc = "w_verify"
    /\ \E r \in IsConnectedResults(connected) :
          /\ observedDisconnected' = Observe(r)
          /\ attemptLog' = Append(attemptLog, r)
          /\ IF VerifySucceeds(r)
               THEN /\ wifiResult' = "Ok"
                    /\ pc' = "w_returned"
                    /\ UNCHANGED <<attempts>>
               ELSE AttemptFailed
    /\ UNCHANGED <<bootVars, steps, radioVars, connectCalls, discVars, monVars, resVars>>
    /\ UNCHANGED <<logVars, clkVars, senVars, valVars>>

\* ------------------------------------------------------------ main_fallible
\* Variant: only the exhaustion error is treated as a failure.
ConnectIsErr_OnlyExhausted(result) == result = "WifiConnectionFailed"

\* if wifi_connect_result.is_err()
ConnectIsErr(result) == result # "Ok"

\* connect_to_wifi returned an error: straight to deep sleep.
MainConnectFailed ==
    /\ pc = "w_returned"
    /\ ConnectIsErr(wifiResult)
    /\ EnterDeepSleep(steps)
    /\ UNCHANGED <<bootVars, radioVars, observedDisconnected, wifiVars, discVars,
                   monVars, resVars>>
    /\ UNCHANGED <<logVars, clkVars, senVars, valVars>>

\* connect_to_wifi returned Ok: spawn the monitor task; a failed spawn goes to
\* disconnect and sleep.
MainSpawnMonitor ==
    /\ pc = "w_returned"
    /\ ~ConnectIsErr(wifiResult)
    /\ \E spawned \in BOOLEAN :
          IF spawned
            THEN /\ monPc' = "polling"
                 /\ pc' = "m_check1"
                 /\ steps' = steps \o <<"Connected", "MonitorSpawned">>
                 /\ UNCHANGED discVars
            ELSE /\ monPc' = monPc
                 /\ StartDisconnect(Append(steps, "Connected"))
    /\ UNCHANGED <<bootVars, radioVars, observedDisconnected, wifiVars,
                   consecutive_failures, channel, lastPolls, published, resVars>>
    /\ UNCHANGED <<logVars, clkVars, senVars, valVars>>

\* Variant: the sensor is read before the timing POST and the first flush.
AfterCheck_Reordered(k) ==
    CASE k = 1 -> "m_sensor"
      [] k = 2 -> "m_flush1"
      [] k = 3 -> "m_metrics"
      [] k = 4 -> "m_timing"
      [] k = 5 -> "m_flush2"

\* The operation that follows the k-th check_wifi_status call.
AfterCheck(k) ==
    CASE k = 1 -> "m_timing"
      [] k = 2 -> "m_flush1"
      [] k = 3 -> "m_sensor"
      [] k = 4 -> "m_metrics"
      [] k = 5 -> "m_flush2"

CheckPc(k) ==
    CASE k = 1 -> "m_check1"
      [] k = 2 -> "m_check2"
      [] k = 3 -> "m_check3"
      [] k = 4 -> "m_check4"
      [] k = 5 -> "m_check5"

\* Variant: the error of check_wifi_status is logged and the cycle goes on.
MainCheck_Continue(k) ==
    /\ pc = CheckPc(k)
    /\ lastCheck' = CheckWifiStatus(channel)
    /\ channel' = TryReceive(channel)
    /\ pc' = AfterCheck(k)
    /\ UNCHANGED <<steps, discVars>>
    /\ UNCHANGED <<bootVars, radioVars, observedDisconnected, wifiVars, monPc,
                   consecutive_failures, lastPolls, published, loggerResult, timingResult, sensorResult,
                   metricsResult, flushResults>>
    /\ UNCHANGED <<logVars, clkVars, senVars, valVars>>

\* wifi_status_result = check_wifi_status(..); an error goes to disconnect.
MainCheck(k) ==
    /\ pc = CheckPc(k)
    /\ lastCheck' = CheckWifiStatus(channel)
    /\ channel' = TryReceive(channel)
    /\ IF CheckWifiStatus(channel) = "Ok"
         THEN /\ pc' = AfterCheck(k)
              /\ UNCHANGED <<steps, discVars>>
         ELSE StartDisconnect(steps)
    /\ UNCHANGED <<bootVars, radioVars, observedDisconnected, wifiVars, monPc,
                   consecutive_failures, lastPolls, published, loggerResult, timingResult, sensorResult,
                   metricsResult, flushResults>>
    /\ UNCHANGED <<logVars, clkVars, senVars, valVars>>

\* if let Err(e) = send_timing_data(..)
TimingIsFatal(r) == r = "Err"

\* send_timing_data: one POST to /api/v1/timing.
MainTiming ==
    /\ pc = "m_timing"
    /\ \E r \in {"Ok", "Err"} :
          /\ timingResult' = r
          /\ IF TimingIsFatal(r)
               THEN StartDisconnect(Append(steps, "TimingPost"))
               ELSE /\ pc' = "m_check2"
                    /\ steps' = Append(steps, "TimingPost")
                    /\ UNCHANGED discVars
    /\ UNCHANGED <<bootVars, radioVars, observedDisconnected, wifiVars, monVars,
                   loggerResult, sensorResult, metricsResult, lastCheck, flushResults>>
    /\ UNCHANGED <<logVars, clkVars, senVars, valVars>>

\* Variant: a failed first flush ends the cycle.
MainFlushFirst_Fatal ==
    /\ pc = "m_flush1"
    /\ \E r \in {"Ok", "Err"} :
          /\ flushResults' = Append(flushResults, r)
          /\ IF r = "Err"
               THEN StartDisconnect(Append(steps, "LogFlush"))
               ELSE /\ steps' = Append(steps, "LogFlush")
                    /\ pc' = "m_check3"
                    /\ UNCHANGED discVars
    /\ UNCHANGED <<bootVars, radioVars, observedDisconnected, wifiVars, monVars,
                   loggerResult, timingResult, sensorResult, metricsResult, lastCheck>>
    /\ UNCHANGED <<logVars, clkVars, senVars, valVars>>

\* First send_logs_to_server call: an error is logged, nothing else.
MainFlushFirst ==
    /\ pc = "m_flush1"
    /\ \E r \in {"Ok", "Err"} : flushResults' = Append(flushResults, r)
    /\ steps' = Append(steps, "LogFlush")
    /\ pc' = "m_check3"
    /\ UNCHANGED <<bootVars, radioVars, observedDisconnected, wifiVars, discVars, monVars,
                   loggerResult, timingResult, sensorResult, metricsResult, lastCheck>>
    /\ UNCHANGED <<logVars, clkVars, senVars, valVars>>

\* read_sensor_data is called and awaited.
MainSensorStart ==
    /\ pc = "m_sensor"
    /\ pc' = "m_sensor_wait"
    /\ steps' = Append(steps, "Sampling")
    /\ UNCHANGED <<bootVars, radioVars, observedDisconnected, wifiVars, discVars, monVars,
                   resVars>>
    /\ UNCHANGED <<logVars, clkVars, senVars, valVars>>

\* read_sensor_data returns; an error goes to disconnect.
MainSensorDone ==
    /\ pc = "m_sensor_wait"
    /\ \E r \in {"Ok", "Err"} :
          /\ sensorResult' = r
          /\ IF r = "Err"
               THEN StartDisconnect(steps)
               ELSE /\ pc' = "m_check4"
                    /\ UNCHANGED <<steps, discVars>>
    /\ UNCHANGED <<bootVars, radioVars, observedDisconnected, wifiVars, monVars,
                   loggerResult, timingResult, metricsResult, lastCheck, flushResults>>
    /\ UNCHANGED <<logVars, clkVars, senVars, valVars>>

\* let _ = send_metrics_to_server(..): the result is dropped.
MainMetrics ==
    /\ pc = "m_metrics"
    /\ \E r \in {"Ok", "Err"} : metricsResult' = r
    /\ steps' = Append(steps, "Transmitted")
    /\ pc' = "m_check5"
    /\ UNCHANGED <<bootVars, radioVars, observedDisconnected, wifiVars, discVars, monVars,
                   loggerResult, timingResult, sensorResult, lastCheck, flushResults>>
    /\ UNCHANGED <<logVars, clkVars, senVars, valVars>>

\* Second send_logs_to_server call, then disconnect_wifi_and_put_device_to_sleep.
MainFlushLast ==
    /\ pc = "m_flush2"
    /\ \E r \in {"Ok", "Err"} : flushResults' = Append(flushResults, r)
    /\ StartDisconnect(Append(steps, "LogFlush"))
    /\ UNCHANGED <<bootVars, radioVars, observedDisconnected, wifiVars, monVars,
                   loggerResult, timingResult, sensorResult, metricsResult, lastCheck>>
    /\ UNCHANGED <<logVars, clkVars, senVars, valVars>>

\* ----------------------------------------------------- disconnect_from_wifi
\* Variant: every return is the error of the verification.
DisconnectReturn_Err(res) ==
    /\ disconnectResult' = "Verification"
    /\ pc' = "d_returned"
    /\ retries' = retries

\* disconnect_from_wifi returns res.
DisconnectReturn(res) ==
    /\ disconnectResult' = res
    /\ pc' = "d_returned"
    /\ retries' = retries

\* Variant: the loop that runs out returns Ok.
DisconnectRetry_OkAtEnd ==
    /\ retries' = retries + 1
    /\ IF retries + 1 < MAX_DISCONNECT_RETRIES
         THEN /\ pc' = "d_check"
              /\ disconnectResult' = disconnectResult
         ELSE /\ pc' = "d_returned"
              /\ disconnectResult' = "Ok"

\* retries += 1; the retry delay and the loop again while
\* retries < MAX_DISCONNECT_RETRIES, else Err(Verification).
DisconnectRetry ==
    /\ retries' = retries + 1
    /\ IF retries + 1 < MAX_DISCONNECT_RETRIES
         THEN /\ pc' = "d_check"
              /\ disconnectResult' = disconnectResult
         ELSE /\ pc' = "d_returned"
              /\ disconnectResult' = "Verification"

\* Loop head: is_connected(), and controller.disconnect() when it says Ok(true).
DisconnectCheck ==
    /\ pc = "d_check"
    /\ retries < MAX_DISCONNECT_RETRIES
    /\ \E r \in IsConnectedResults(connected) :
          /\ firstStatus' = (IF retries = 0 THEN r ELSE firstStatus)
          /\ CASE SaysDisconnected(r) ->
                 /\ observedDisconnected' = TRUE
                 /\ lastStatus' = r
                 /\ DisconnectReturn("Ok")
                 /\ UNCHANGED <<disconnectCalls, radioVars>>
            [] r = "ErrOther" ->
                 /\ lastStatus' = r
                 /\ DisconnectRetry
                 /\ UNCHANGED <<observedDisconnected, disconnectCalls, radioVars>>
            [] r = "true" ->
                 /\ disconnectCalls' = disconnectCalls + 1
                 /\ \E d \in {"Ok", "ErrDisconnected", "ErrOther"} :
                     /\ lastStatus' = (IF d = "Ok" THEN r ELSE d)
                     /\ CASE d = "Ok" ->
                              \* the disconnection may or may not have completed
                              /\ \E still \in BOOLEAN :
                                    /\ connected' = still
                                    /\ linkUp' = (linkUp /\ still)
                                    /\ hasAddress' = (hasAddress /\ still)
                              /\ pc' = "d_verify"
                              /\ observedDisconnected' = FALSE
                              /\ UNCHANGED <<started, retries, disconnectResult>>
                         [] d = "ErrDisconnected" ->
                              /\ connected' = FALSE
                              /\ linkUp' = FALSE
                              /\ hasAddress' = FALSE
                              /\ observedDisconnected' = TRUE
                              /\ DisconnectReturn("Ok")
                              /\ UNCHANGED started
                         [] d = "ErrOther" ->
                              /\ observedDisconnected' = FALSE
                              /\ UNCHANGED radioVars
                              /\ IF retries = MAX_DISCONNECT_RETRIES - 1
                                   THEN DisconnectReturn("Disconnect")
                                   ELSE DisconnectRetry
    /\ UNCHANGED <<invocations, previousResult, callsAtStart>>
    /\ UNCHANGED <<bootVars, steps, wifiVars, monVars, resVars>>
    /\ UNCHANGED <<logVars, clkVars, senVars, valVars>>

\* After the delay: is_connected() again to verify the disconnection.
DisconnectVerify ==
    /\ pc = "d_verify"
    /\ \E r \in IsConnectedResults(connected) :
          /\ lastStatus' = r
          /\ IF SaysDisconnected(r)
               THEN /\ observedDisconnected' = TRUE
                    /\ DisconnectReturn("Ok")
               ELSE /\ observedDisconnected' = Observe(r)
                    /\ DisconnectRetry
    /\ UNCHANGED <<invocations, previousResult, firstStatus, callsAtStart>>
    /\ UNCHANGED <<bootVars, steps, radioVars, wifiVars, disconnectCalls, monVars, resVars>>
    /\ UNCHANGED <<logVars, clkVars, senVars, valVars>>

\* Variant: only Err(Disconnect) leads to the reset.
DisconnectIsOk_Partial(res) == res # "Disconnect"

\* match wifi_disconnect_result
DisconnectIsOk(res) == res = "Ok"

\* disconnect_wifi_and_put_device_to_sleep: deep sleep after Ok, software
\* reset after an error.
MainAfterDisconnect ==
    /\ pc = "d_returned"
    /\ IF DisconnectIsOk(disconnectResult)
         THEN EnterDeepSleep(Append(steps, "Disconnected"))
         ELSE /\ pc' = "reset"
              /\ steps' = Append(steps, "Reset")
    /\ UNCHANGED <<bootVars, radioVars, observedDisconnected, wifiVars, discVars, monVars,
                   resVars>>
    /\ UNCHANGED <<logVars, clkVars, senVars, valVars>>

\* ------------------------------------------- wifi_monitor_task_with_channel
Awake == pc \notin {"asleep", "reset"}

\* The latest MAX_CONSECUTIVE_FAILURES elements of a sequence.
LastPolls(sq) ==
    IF Len(sq) <= MAX_CONSECUTIVE_FAILURES THEN sq
    ELSE SubSeq(sq, Len(sq) - MAX_CONSECUTIVE_FAILURES + 1, Len(sq))

\* Variant: a connected poll does not reset the count.
FailuresAfter_NoReset(r, cf) == IF r = "true" THEN cf ELSE cf + 1

\* consecutive_failures after a poll that said Connected (r = "true") or
\* Disconnected.
FailuresAfter(r, cf) == IF r = "true" THEN 0 ELSE cf + 1

\* Variant: the loop goes on after a result was sent.
MonitorPoll_KeepsPolling ==
    /\ monPc = "polling"
    /\ Len(published) < MaxPublished
    /\ Awake
    /\ \E r \in IsConnectedResults(connected) :
          /\ observedDisconnected' = Observe(r)
          /\ lastPolls' = LastPolls(Append(lastPolls, r))
          /\ IF r \in {"true", "false"}
               THEN /\ consecutive_failures' = FailuresAfter(r, consecutive_failures)
                    /\ IF r = "false" /\
                          FailuresAfter(r, consecutive_failures) >= MAX_CONSECUTIVE_FAILURES
                         THEN /\ channel' = TrySend(channel, "ConnectionFailure")
                              /\ published' = Append(published, "ConnectionFailure")
                              /\ monPc' = monPc
                         ELSE UNCHANGED <<monPc, channel, published>>
               ELSE /\ channel' = TrySend(channel, "InternalError")
                    /\ published' = Append(published, "InternalError")
                    /\ monPc' = monPc
                    /\ UNCHANGED consecutive_failures
    /\ UNCHANGED <<pc, bootVars, steps, radioVars, wifiVars, discVars, resVars>>
    /\ UNCHANGED <<logVars, clkVars, senVars, valVars>>

\* One iteration of the monitor loop: monitor_connection, then the match.
MonitorPoll ==
    /\ monPc = "polling"
    /\ Awake
    /\ \E r \in IsConnectedResults(connected) :
          /\ observedDisconnected' = Observe(r)
          /\ lastPolls' = LastPolls(Append(lastPolls, r))
          /\ IF r \in {"true", "false"}
               THEN /\ consecutive_failures' = FailuresAfter(r, consecutive_failures)
                    /\ IF r = "false" /\
                          FailuresAfter(r, consecutive_failures) >= MAX_CONSECUTIVE_FAILURES
                         THEN /\ channel' = TrySend(channel, "ConnectionFailure")
                              /\ published' = Append(published, "ConnectionFailure")
                              /\ monPc' = "exited"
                         ELSE UNCHANGED <<monPc, channel, published>>
               ELSE /\ channel' = TrySend(channel, "InternalError")
                    /\ published' = Append(published, "InternalError")
                    /\ monPc' = "exited"
                    /\ UNCHANGED consecutive_failures
    /\ UNCHANGED <<pc, bootVars, steps, radioVars, wifiVars, discVars, resVars>>
    /\ UNCHANGED <<logVars, clkVars, senVars, valVars>>

\* ------------------------------------------------------------- the network
\* The link comes up once the station is connected.
NetLinkUp ==
    /\ Awake
    /\ connected /\ ~linkUp
    /\ linkUp' = TRUE
    /\ UNCHANGED <<pc, bootVars, steps, started, connected, hasAddress,
                   observedDisconnected, wifiVars, discVars, monVars, resVars>>
    /\ UNCHANGED <<logVars, clkVars, senVars, valVars>>

\* DHCP hands out an IPv4 address.
NetAddress ==
    /\ Awake
    /\ linkUp /\ ~hasAddress
    /\ hasAddress' = TRUE
    /\ UNCHANGED <<pc, bootVars, steps, started, connected, linkUp,
                   observedDisconnected, wifiVars, discVars, monVars, resVars>>
    /\ UNCHANGED <<logVars, clkVars, senVars, valVars>>

\* The access point drops the station.
NetDrop ==
    /\ Awake
    /\ connected
    /\ connected' = FALSE
    /\ linkUp' = FALSE
    /\ hasAddress' = FALSE
    /\ UNCHANGED <<pc, bootVars, steps, started, observedDisconnected, wifiVars,
                   discVars, monVars, resVars>>
    /\ UNCHANGED <<logVars, clkVars, senVars, valVars>>

\* The station is associated again while the monitor task is polling: the
\* driver's is_connected() may say Ok(true) after it said Ok(false).
NetRejoin ==
    /\ Awake
    /\ started /\ ~connected
    /\ monPc = "polling"
    /\ connected' = TRUE
    /\ UNCHANGED <<pc, bootVars, steps, started, linkUp, hasAddress,
                   observedDisconnected, wifiVars, discVars, monVars, resVars>>
    /\ UNCHANGED <<logVars, clkVars, senVars, valVars>>

\* ---------------------------------------------------------------- wake-up
\* The timer (or the reset) boots the device again: RAM starts fresh,
\* BOOT_COUNT is kept.
Wake ==
    /\ pc \in {"asleep", "reset"}
    /\ bootCount < MaxBoots
    /\ pc' = "boot"
    /\ bootCount' = bootCount
    /\ bootCountAtWake' = bootCount
    /\ steps' = <<>>
    /\ started' = FALSE
    /\ connected' = FALSE
    /\ linkUp' = FALSE
    /\ hasAddress' = FALSE
    /\ observedDisconnected' = FALSE
    /\ attempts' = 0
    /\ attemptLog' = <<>>
    /\ wifiResult' = "none"
    /\ connectCalls' = 0
    /\ retries' = 0
    /\ disconnectCalls' = 0
    /\ disconnectResult' = "none"
    /\ invocations' = 0
    /\ previousResult' = "none"
    /\ firstStatus' = "none"
    /\ lastStatus' = "none"
    /\ callsAtStart' = 0
    /\ monPc' = "none"
    /\ consecutive_failures' = 0
    /\ channel' = <<>>
    /\ lastPolls' = <<>>
    /\ published' = <<>>
    /\ loggerResult' = "none"
    /\ timingResult' = "none"
    /\ sensorResult' = "none"
    /\ metricsResult' = "none"
    /\ lastCheck' = "none"
    /\ flushResults' = <<>>
    /\ UNCHANGED <<logVars, clkVars, senVars, valVars>>

\* ------------------------------------------------------------ specification
\* The steps of the orchestrator task.
Orchestrator ==
    \/ MainBoot
    \/ MainCredentials
    \/ WifiCreate
    \/ WifiStartRadio
    \/ WifiConnect
    \/ WifiWaitLink
    \/ WifiWaitAddress
    \/ WifiPollTimer
    \/ WifiStabilize
    \/ WifiVerify
    \/ MainConnectFailed
    \/ MainSpawnMonitor
    \/ \E k \in 1..5 : MainCheck(k)
    \/ MainTiming
    \/ MainFlushFirst
    \/ MainSensorStart
    \/ MainSensorDone
    \/ MainMetrics
    \/ MainFlushLast
    \/ DisconnectCheck
    \/ DisconnectVerify
    \/ MainAfterDisconnect

Next ==
    \/ Orchestrator
    \/ MonitorPoll
    \/ NetLinkUp
    \/ NetAddress
    \/ NetDrop
    \/ NetRejoin
    \/ Wake

Spec == Init /\ [][Next]_vars

\* The executor keeps running the orchestrator and the monitor task; nothing
\* is assumed of the network.
FairSpec == Spec /\ WF_vars(Orchestrator) /\ WF_vars(MonitorPoll) /\ WF_vars(Wake)

\* --------------------------------------- disconnect_from_wifi, called again
\* A caller calls disconnect_from_wifi: the first time on a started
\* controller that is connected or not, then again on the controller as the
\* call before left it.
DisconnectCall ==
    /\ pc \in {"boot", "d_returned"}
    /\ invocations < MaxInvocations
    /\ IF pc = "boot"
         THEN /\ started' = TRUE
              /\ \E c \in BOOLEAN :
                    /\ connected' = c
                    /\ linkUp' = c
                    /\ hasAddress' = c
         ELSE UNCHANGED radioVars
    /\ StartDisconnect(steps)
    /\ UNCHANGED <<bootVars, observedDisconnected, wifiVars, monVars, resVars>>
    /\ UNCHANGED <<logVars, clkVars, senVars, valVars>>

DiscSpec ==
    Init /\ [][DisconnectCall \/ DisconnectCheck \/ DisconnectVerify \/ NetDrop]_vars

\* The executor keeps running the task that called disconnect_from_wifi, and
\* its timers expire.
DiscFairSpec == DiscSpec /\ WF_vars(DisconnectCheck \/ DisconnectVerify)

\* ------------------------------------------------------------ the logger
LoggerCommands == {"NetworkAvailable", "NetworkUnavailable", "Shutdown"}

Ids(sq) == {sq[i] : i \in DOMAIN sq}

\* store_log, first half: a full ring gives up its oldest entry.
EvictIfFull(r) == IF Len(r) = MAX_STORED_LOGS THEN Tail(r) ELSE r

\* store_log, second half: push_back is an error on a full ring.
PushBack(r, e) == IF Len(r) < MAX_STORED_LOGS THEN Append(r, e) ELSE r

\* store_log run without interruption.
StoreLog(r, e) == PushBack(EvictIfFull(r), e)

\* send_logs_to_server: the slice of the batch that is serialized and POSTed.
LogsSlice(logs) ==
    IF Len(logs) > BatchLimit THEN SubSeq(logs, 1, BatchLimit) ELSE logs

\* Variant: the retry interval has no ceiling.
IncreaseRetryInterval_NoCeiling(interval) == interval * 2

\* increase_retry_interval.
IncreaseRetryInterval(interval) ==
    IF interval * 2 < MAX_RETRY_INTERVAL THEN interval * 2 ELSE MAX_RETRY_INTERVAL

\* Variant: a delivered batch stays in the staging buffer.
AfterSuccess_Keep(logs) == logs

\* temp_log_buffer.clear() after a successful send.
AfterSuccess(logs) == <<>>

\* The elapsed time grows to the next retry interval it can be compared with.
LaterElapsed(t) ==
    {t, IF t = 0 THEN BASE_RETRY_INTERVAL
        ELSE IF t * 2 < MAX_RETRY_INTERVAL THEN t * 2 ELSE MAX_RETRY_INTERVAL}

\* Where another task can run: logger_task is in Timer::after or in the send.
LoggerSuspended == lpc \in {"l_timer", "l_send", "l_exit"}

\* logger_task after the body of a loop iteration: the shutdown test, then
\* the 100 ms timer.
LoopEnd(shutdown, available) ==
    IF shutdown /\ ~available THEN "l_exit" ELSE "l_timer"

\* A task calls log(): store_log up to the push_back.
\* The history counters of failed deliveries stop counting at MaxFailures.
CountUp(n) == IF n < MaxFailures THEN n + 1 ELSE n

\* logger_task after the body of a loop iteration: ShutdownComplete is
\* signalled before the loop is left.
StatusAtLoopEnd(shutdown, available, current) ==
    IF shutdown /\ ~available THEN "ShutdownComplete" ELSE current

\* Variant: a delivery attempt does not wait for the retry interval.
AttemptDue_NoWait(batch, elapsed, interval) == batch # <<>>

\* logger_task: the condition under which a delivery attempt starts.
AttemptDue(batch, elapsed, interval) == batch # <<>> /\ elapsed >= interval

LogTaskBegin ==
    /\ tlog = "idle"
    /\ LoggerSuspended
    /\ nextId <= MaxLogs
    /\ ring' = EvictIfFull(ring)
    /\ pending' = nextId
    /\ nextId' = nextId + 1
    /\ tlog' = "push"
    /\ UNCHANGED <<temp, retry_interval, network_available, shutdown_requested,
                   sinceAttempt, commands, commandsSent, lpc, takeCount, bootFirst,
                   delivered, failures, sinceBase, cycle, status,
                   intervalAfter, taken>>
    /\ UNCHANGED <<mainVars, clkVars, senVars, valVars>>

\* The push_back of that call.
LogTaskPush ==
    /\ tlog = "push"
    /\ ring' = PushBack(ring, pending)
    /\ pending' = 0
    /\ tlog' = "idle"
    /\ UNCHANGED <<temp, retry_interval, network_available, shutdown_requested,
                   sinceAttempt, commands, commandsSent, lpc, takeCount, nextId,
                   bootFirst, delivered, failures, sinceBase, cycle, status,
                   intervalAfter, taken>>
    /\ UNCHANGED <<mainVars, clkVars, senVars, valVars>>

\* An interrupt handler calls log(): nothing masks interrupts, so this runs
\* to completion wherever the interrupted code is.
LogIsr ==
    /\ nextId <= MaxLogs
    /\ ring' = StoreLog(ring, nextId)
    /\ nextId' = nextId + 1
    /\ UNCHANGED <<temp, retry_interval, network_available, shutdown_requested,
                   sinceAttempt, commands, commandsSent, lpc, takeCount, tlog,
                   pending, bootFirst, delivered, failures, sinceBase, cycle, status,
                   intervalAfter, taken>>
    /\ UNCHANGED <<mainVars, clkVars, senVars, valVars>>

\* set_network_available / request_shutdown: try_send of a command.
LogCommand ==
    /\ tlog = "idle"
    /\ LoggerSuspended
    /\ commandsSent < MaxCommands
    /\ \E c \in LoggerCommands :
          commands' = IF Len(commands) < LOGGER_COMMAND_CAPACITY
                        THEN Append(commands, c) ELSE commands
    /\ commandsSent' = commandsSent + 1
    /\ UNCHANGED <<ring, temp, retry_interval, network_available,
                   shutdown_requested, sinceAttempt, lpc, takeCount, tlog, pending,
                   nextId, bootFirst, delivered, failures, sinceBase, cycle, status,
                   intervalAfter, taken>>
    /\ UNCHANGED <<mainVars, clkVars, senVars, valVars>>

\* logger_task, top of the loop: one command is taken and applied; with the
\* network available the task goes on to the staging batch.
LoggerPoll ==
    /\ lpc = "l_loop"
    /\ tlog = "idle"
    /\ LET cmd == IF commands = <<>> THEN "none" ELSE Head(commands)
           available == IF cmd = "NetworkAvailable" THEN TRUE
                        ELSE IF cmd = "NetworkUnavailable" THEN FALSE
                        ELSE network_available
           shutdown == shutdown_requested \/ cmd = "Shutdown"
       IN /\ commands' = IF commands = <<>> THEN commands ELSE Tail(commands)
          /\ network_available' = available
          /\ shutdown_requested' = shutdown
          /\ retry_interval' = IF cmd = "NetworkAvailable" THEN BASE_RETRY_INTERVAL
                               ELSE retry_interval
          /\ sinceBase' = IF cmd = "NetworkAvailable" THEN 0 ELSE sinceBase
          /\ lpc' = IF available
                      THEN IF temp = <<>> THEN "l_take" ELSE "l_decide"
                      ELSE LoopEnd(shutdown, available)
          /\ status' = StatusAtLoopEnd(shutdown, available,
                           IF cmd = "NetworkAvailable" THEN "Running"
                           ELSE IF cmd = "NetworkUnavailable" THEN "Idle"
                           ELSE IF cmd = "Shutdown" /\ network_available THEN "Running"
                           ELSE status)
    /\ takeCount' = 0
    /\ UNCHANGED <<ring, temp, sinceAttempt, commandsSent, tlog, pending, nextId,
                   bootFirst, delivered, failures, cycle, intervalAfter, taken>>
    /\ UNCHANGED <<mainVars, clkVars, senVars, valVars>>

\* take_logs(temp_log_buffer, MAX_STORED_LOGS): one iteration of its loop, or
\* its return.
LoggerTake ==
    /\ lpc = "l_take"
    /\ IF takeCount < MAX_STORED_LOGS /\ ring # <<>>
         THEN IF Len(temp) < MAX_STORED_LOGS
                THEN /\ temp' = Append(temp, Head(ring))
                     /\ ring' = Tail(ring)
                     /\ takeCount' = takeCount + 1
                     /\ UNCHANGED lpc
                ELSE /\ lpc' = "l_decide"
                     /\ UNCHANGED <<ring, temp, takeCount>>
         ELSE /\ lpc' = "l_decide"
              /\ UNCHANGED <<ring, temp, takeCount>>
    /\ UNCHANGED <<retry_interval, network_available, shutdown_requested,
                   sinceAttempt, commands, commandsSent, tlog, pending, nextId,
                   bootFirst, delivered, failures, sinceBase, cycle, status,
                   intervalAfter, taken>>
    /\ UNCHANGED <<mainVars, clkVars, senVars, valVars>>

\* logger_task: a delivery attempt starts when the batch is not empty and the
\* retry interval has passed; the network stack is taken from its channel.
LoggerDecide ==
    /\ lpc = "l_decide"
    /\ IF AttemptDue(temp, sinceAttempt, retry_interval)
         THEN /\ sinceAttempt' = 0
              /\ \E stack \in BOOLEAN :
                    IF stack
                      THEN /\ lpc' = "l_send"
                           /\ status' = "Running"
                           /\ UNCHANGED <<network_available, intervalAfter>>
                      ELSE /\ network_available' = FALSE
                           /\ lpc' = LoopEnd(shutdown_requested, FALSE)
                           /\ status' = StatusAtLoopEnd(shutdown_requested, FALSE, "Idle")
                           /\ intervalAfter' = retry_interval
         ELSE /\ lpc' = IF temp = <<>> /\ shutdown_requested
                          THEN "l_exit"
                          ELSE LoopEnd(shutdown_requested, network_available)
              /\ status' = IF temp = <<>>
                             THEN IF shutdown_requested THEN "ShutdownComplete" ELSE "Idle"
                             ELSE status
              /\ UNCHANGED <<sinceAttempt, network_available, intervalAfter>>
    /\ UNCHANGED <<ring, temp, retry_interval, shutdown_requested, commands,
                   commandsSent, takeCount, tlog, pending, nextId, bootFirst,
                   delivered, failures, sinceBase, cycle, taken>>
    /\ UNCHANGED <<mainVars, clkVars, senVars, valVars>>

\* send_logs_to_server returns: Ok after a 2xx response, Err otherwise.
LoggerSendDone ==
    /\ lpc = "l_send"
    /\ tlog = "idle"
    /\ \E result \in {"Ok", "Err"} :
          IF result = "Ok"
            THEN /\ delivered' = delivered \cup Ids(LogsSlice(temp))
                 /\ temp' = AfterSuccess(temp)
                 /\ retry_interval' = BASE_RETRY_INTERVAL
                 /\ intervalAfter' = BASE_RETRY_INTERVAL
                 /\ failures' = 0
                 /\ sinceBase' = 0
            ELSE /\ retry_interval' = IncreaseRetryInterval(retry_interval)
                 /\ intervalAfter' = IncreaseRetryInterval(retry_interval)
                 /\ failures' = CountUp(failures)
                 /\ sinceBase' = CountUp(sinceBase)
                 /\ UNCHANGED <<temp, delivered>>
    /\ lpc' = LoopEnd(shutdown_requested, network_available)
    /\ sinceAttempt' \in LaterElapsed(sinceAttempt)
    /\ UNCHANGED <<ring, network_available, shutdown_requested, commands,
                   commandsSent, takeCount, tlog, pending, nextId, bootFirst, cycle,
                   status, taken>>
    /\ UNCHANGED <<mainVars, clkVars, senVars, valVars>>

\* Timer::after(100 ms) at the end of the loop.
LoggerTimer ==
    /\ lpc = "l_timer"
    /\ tlog = "idle"
    /\ lpc' = "l_loop"
    /\ sinceAttempt' \in LaterElapsed(sinceAttempt)
    /\ UNCHANGED <<ring, temp, retry_interval, network_available,
                   shutdown_requested, commands, commandsSent, takeCount, tlog,
                   pending, nextId, bootFirst, delivered, failures, sinceBase, cycle, status,
                   intervalAfter, taken>>
    /\ UNCHANGED <<mainVars, clkVars, senVars, valVars>>

\* Deep sleep and the next wake: LOGGER and the locals of logger_task are in
\* ordinary RAM and start again from setup.
LogWake ==
    /\ tlog = "idle"
    /\ LoggerSuspended
    /\ cycle < MaxLogCycles
    /\ cycle' = cycle + 1
    /\ ring' = <<>>
    /\ temp' = <<>>
    /\ retry_interval' = BASE_RETRY_INTERVAL
    /\ network_available' = FALSE
    /\ shutdown_requested' = FALSE
    /\ sinceAttempt' = 0
    /\ commands' = <<>>
    /\ commandsSent' = 0
    /\ lpc' = "l_loop"
    /\ takeCount' = 0
    /\ bootFirst' = nextId
    /\ failures' = 0
    /\ sinceBase' = 0
    /\ status' = "Idle"
    /\ intervalAfter' = BASE_RETRY_INTERVAL
    /\ UNCHANGED <<tlog, pending, nextId, delivered, taken>>
    /\ UNCHANGED <<mainVars, clkVars, senVars, valVars>>

LogNext ==
    \/ LogTaskBegin
    \/ LogTaskPush
    \/ LogIsr
    \/ LogCommand
    \/ LoggerPoll
    \/ LoggerTake
    \/ LoggerDecide
    \/ LoggerSendDone
    \/ LoggerTimer
    \/ LogWake

\* The logger, the tasks and interrupt handlers that log, and whoever sends
\* it commands.
LogSpec == Init /\ [][LogNext]_vars

\* Variant: an entry that does not fit into dest is dropped.
PushFront_Drop(r, e) == r

\* log_buffer.push_front(entry): an error on a full ring.
PushFront(r, e) == IF Len(r) < MAX_STORED_LOGS THEN <<e>> \o r ELSE r

RECURSIVE TakeLoop(_, _, _, _)
\* take_logs: the loop, from the state (log_buffer, dest, count).
TakeLoop(r, dest, max_count, count) ==
    IF count < max_count /\ r # <<>>
      THEN IF Len(dest) >= MAX_STORED_LOGS
             THEN [ring |-> PushFront(Tail(r), Head(r)), dest |-> dest, count |-> count]
             ELSE TakeLoop(Tail(r), Append(dest, Head(r)), max_count, count + 1)
      ELSE [ring |-> r, dest |-> dest, count |-> count]

\* The rings and destination vectors take_logs is applied to: up to
\* MAX_STORED_LOGS entries each, equal entries included.
LogSequences ==
    UNION {[1..n -> 1..MaxEntryKinds] : n \in 0..MAX_STORED_LOGS}

\* A call of take_logs with any ring, any dest and any max_count.
TakeLogsCall ==
    /\ taken = NoTake
    /\ \E r \in LogSequences, dest \in LogSequences, max_count \in 0..MaxTake :
          LET after == TakeLoop(r, dest, max_count, 0)
          IN taken' = [ring |-> r, dest |-> dest, max_count |-> max_count,
                       ring_after |-> after.ring, dest_after |-> after.dest,
                       count |-> after.count]
    /\ UNCHANGED <<ring, temp, retry_interval, network_available,
                   shutdown_requested, sinceAttempt, commands, commandsSent, lpc,
                   takeCount, tlog, pending, nextId, bootFirst, delivered, failures,
                   sinceBase, cycle, status, intervalAfter>>
    /\ UNCHANGED <<mainVars, clkVars, senVars, valVars>>

\* take_logs on its own.
TakeSpec == Init /\ [][TakeLogsCall]_vars

\* One step of logger_task.
LoggerStep ==
    LoggerPoll \/ LoggerTake \/ LoggerDecide \/ LoggerSendDone \/ LoggerTimer

\* One wake cycle of the logger: interrupt handlers log, commands arrive and
\* logger_task runs. The executor keeps running logger_task, and the 100 ms
\* timer of its loop moves the clock on, so the time between two delivery
\* attempts does not stand still.
LogFairSpec ==
    /\ Init /\ [][LogIsr \/ LogCommand \/ LoggerStep]_vars
    /\ WF_vars(LoggerStep)
    /\ SF_vars(LoggerTimer /\ sinceAttempt' # sinceAttempt)

\* -------------------------------------------------------------- the clock
\* Offsets the time server answers with, in seconds.
Offsets == {0, 43200}

\* UtcOffset::from_whole_seconds accepts offsets of less than 26 hours.
OffsetValid(o) == -93600 < o /\ o < 93600

\* Variant: the uptime is not taken off the current time.
NewBootTime_NoUptime(current_time, from_boot) == current_time

\* Clock::new: current_time - from_boot, wrapped as the release build does.
NewBootTime(current_time, from_boot) == (current_time - from_boot) % Modulus

\* Variant: the uptime is subtracted.
NowAsEpoch_Minus(c, from_boot) == (c.boot_time - from_boot) % Modulus

\* Clock::now_as_epoch.
NowAsEpoch(c, from_boot) == (c.boot_time + from_boot) % Modulus

\* Variant: rounds now down instead of now + period.
NextRoundedWakeup_Down(now, period) == (now \div period) * period

\* next_rounded_wakeup, in whole seconds.
NextRoundedWakeup(now, period) == ((now + period) \div period) * period

\* Clock::new(current_time, offset) called by src: the subtraction panics in
\* a build with overflow checks when current_time < from_boot.
ClockNew(current_time, offset, src) ==
    IF overflowChecks /\ current_time < uptime
      THEN /\ clockPanicked' = TRUE
           /\ UNCHANGED <<clock, clockSource, restoredAt>>
      ELSE /\ clock' = [boot_time |-> NewBootTime(current_time, uptime),
                        offset |-> offset]
           /\ clockSource' = src
           /\ restoredAt' = uptime
           /\ UNCHANGED clockPanicked

\* A second passes.
ClockTick ==
    /\ ~clockPanicked
    /\ uptime < MaxUptime
    /\ uptime' = uptime + 1
    /\ sinceSync' = IF sinceSync < SyncInterval THEN sinceSync + 1 ELSE sinceSync
    /\ UNCHANGED wakeup
    /\ UNCHANGED <<overflowChecks, rtcEpoch, rtcOffset, clock, clockSource,
                   clockPanicked, lastNow, savedNow, savedSleep, savedOffset,
                   restoredAt, clkCycle>>
    /\ UNCHANGED <<mainVars, logVars, senVars, valVars>>

\* Clock::from_server: the response gives a timestamp and an offset, or the
\* request or the parsing fails.
ClockFromServer ==
    /\ ~clockPanicked
    /\ \E ok \in BOOLEAN :
          IF ok
            THEN /\ \E t \in 0..MaxEpoch, o \in Offsets : ClockNew(t, o, "server")
                 /\ sinceSync' = 0
                 /\ lastNow' = -1
            ELSE UNCHANGED <<clock, clockSource, restoredAt, clockPanicked,
                             sinceSync, lastNow>>
    /\ UNCHANGED wakeup
    /\ UNCHANGED <<overflowChecks, uptime, rtcEpoch, rtcOffset, savedNow,
                   savedSleep, savedOffset, clkCycle>>
    /\ UNCHANGED <<mainVars, logVars, senVars, valVars>>

\* Clock::from_rtc_memory returning Some, as the first clock of a wake cycle:
\* BOOT_TIME holds a non-zero epoch and a valid offset.
ClockFromRtc ==
    /\ ~clockPanicked
    /\ clock = NoClock
    /\ rtcEpoch # 0
    /\ OffsetValid(rtcOffset)
    /\ ClockNew(rtcEpoch, rtcOffset, "rtc")
    /\ lastNow' = -1
    /\ UNCHANGED wakeup
    /\ UNCHANGED <<overflowChecks, uptime, rtcEpoch, rtcOffset, savedNow,
                   savedSleep, savedOffset, sinceSync, clkCycle>>
    /\ UNCHANGED <<mainVars, logVars, senVars, valVars>>

\* A call of now_as_epoch.
ClockRead ==
    /\ ~clockPanicked
    /\ clock # NoClock
    /\ lastNow' = NowAsEpoch(clock, uptime)
    /\ UNCHANGED wakeup
    /\ UNCHANGED <<overflowChecks, uptime, rtcEpoch, rtcOffset, clock, clockSource,
                   clockPanicked, savedNow, savedSleep, savedOffset, restoredAt,
                   sinceSync, clkCycle>>
    /\ UNCHANGED <<mainVars, logVars, senVars, valVars>>

\* Clock::save_to_rtc_memory(expected_sleep_duration).
ClockSave ==
    /\ ~clockPanicked
    /\ clock # NoClock
    /\ \E d \in 1..MaxSleep :
          /\ rtcEpoch' = (NowAsEpoch(clock, uptime) + d) % Modulus
          /\ savedSleep' = d
    /\ rtcOffset' = clock.offset
    /\ savedNow' = NowAsEpoch(clock, uptime)
    /\ savedOffset' = clock.offset
    /\ UNCHANGED wakeup
    /\ UNCHANGED <<overflowChecks, uptime, clock, clockSource, clockPanicked,
                   lastNow, restoredAt, sinceSync, clkCycle>>
    /\ UNCHANGED <<mainVars, logVars, senVars, valVars>>

\* Deep sleep (or the reset after a panic) and the next wake: BOOT_TIME is
\* kept, the tick counter starts again.
ClockSleepWake ==
    /\ clkCycle < MaxClockCycles
    /\ clkCycle' = clkCycle + 1
    /\ \E slept \in 1..MaxSleep :
          sinceSync' = IF sinceSync + slept < SyncInterval
                         THEN sinceSync + slept ELSE SyncInterval
    /\ uptime' = 0
    /\ clock' = NoClock
    /\ clockSource' = "none"
    /\ clockPanicked' = FALSE
    /\ lastNow' = -1
    /\ restoredAt' = 0
    /\ UNCHANGED wakeup
    /\ UNCHANGED <<overflowChecks, rtcEpoch, rtcOffset, savedNow, savedSleep,
                   savedOffset>>
    /\ UNCHANGED <<mainVars, logVars, senVars, valVars>>

ClockNext ==
    \/ ClockTick
    \/ ClockFromServer
    \/ ClockFromRtc
    \/ ClockRead
    \/ ClockSave
    \/ ClockSleepWake

\* The epochs and periods next_rounded_wakeup is applied to: small ones, and
\* 09:46:12 with periods of a minute, five minutes and an hour.
WakeupEpochs == 0..MaxNow \cup {35172}

WakeupPeriods == 1..MaxPeriod \cup {60, 300, 3600}

\* duration_to_next_rounded_wakeup(now, period) for any epoch and period.
RoundedWakeup ==
    /\ \E now \in WakeupEpochs, p \in WakeupPeriods :
          wakeup' = [now |-> now, period |-> p,
                     then |-> NextRoundedWakeup(now, p),
                     duration |-> NextRoundedWakeup(now, p) - now]
    /\ UNCHANGED <<overflowChecks, uptime, rtcEpoch, rtcOffset, clock, clockSource,
                   clockPanicked, lastNow, savedNow, savedSleep, savedOffset,
                   restoredAt, sinceSync, clkCycle>>
    /\ UNCHANGED <<mainVars, logVars, senVars, valVars>>

\* next_rounded_wakeup on its own.
RoundSpec == Init /\ [][RoundedWakeup]_vars

\* The clock under any order of its operations.
ClockSpec == Init /\ [][ClockNext]_vars

\* -------------------------------------- the monitor channel on its own
(***************************************************************************)
(* The acquisition pipeline: read_sensor_data_task reads the BME280, then  *)
(* the ADS1115 behind the pressure sensor, and sends one reading to        *)
(* update_task over a channel.                                             *)
(***************************************************************************)

\* NUMBER_OF_SAMPLES.
NUMBER_OF_SAMPLES == 5

\* The capacity of the channel of readings.
SENSOR_CHANNEL_CAPACITY == 3

\* A sample the BME280 delivered.
BmeReal == [temperature |-> 21, humidity |-> 40, pressure |-> 1000]

\* Bme280Data::random: temperature in 15..30, humidity in 20..80, pressure in
\* 990..1010.
BmeRandom == [temperature |-> 16, humidity |-> 70, pressure |-> 995]

\* Samples of the four channels of the ADS1115, in the units of Ads1115Data.
AdsSamples ==
    { [enclosure_relative_brightness |-> 10, battery_voltage |-> 12,
       pressure_sensor_voltage |-> 24, height_above_sensor |-> 1],
      [enclosure_relative_brightness |-> 30, battery_voltage |-> 11,
       pressure_sensor_voltage |-> 23, height_above_sensor |-> 3] }

\* `for n in 0..collected_data.len() { sum += collected_data[n].field }`,
\* after n rounds.
RECURSIVE Accumulate(_, _, _)
Accumulate(collected_data, field, n) ==
    IF n = 0 THEN 0
    ELSE Accumulate(collected_data, field, n - 1) + collected_data[n][field]

\* `sum / number_of_measurements` in f32, kept as the exact fraction.
Quotient(sum, number_of_measurements) ==
    [sum |-> sum, by |-> number_of_measurements]

\* The averaging at the end of read_bme280 and of read_ads1115: every field of
\* the reading is the sum of the field divided by collected_data.len().
Average_DropLast(collected_data, fields) ==
    [f \in fields |->
        Quotient(Accumulate(collected_data, f, Len(collected_data) - 1),
                 Len(collected_data))]

Average(collected_data, fields) ==
    [f \in fields |->
        Quotient(Accumulate(collected_data, f, Len(collected_data)),
                 Len(collected_data))]

BmeFields == {"temperature", "humidity", "pressure"}

AdsFields == {"enclosure_relative_brightness", "battery_voltage",
              "pressure_sensor_voltage", "height_above_sensor"}

\* `if diff < 0.2`.
InTolerance(diff) == diff < TOLERANCE

\* stable_count after a poll that measured `diff`.
StableCountAfter_NoReset(count, diff) ==
    IF InTolerance(diff) THEN count + 1 ELSE count

StableCountAfter(count, diff) ==
    IF InTolerance(diff) THEN count + 1 ELSE 0

\* The latest STABLE_POLLS differences polled, the newest last.
PollsAfter(window, diff) ==
    IF Len(window) < STABLE_POLLS THEN Append(window, diff)
    ELSE Append(Tail(window), diff)

\* What wait_for_pressure_sensor_voltage_to_stabilize returns when its loop
\* ends: `Ok(())` is its only return.
StabilizationResult == "Ok"

\* read_bme280: initialize_bme280, whose failure is only logged.
ReadBme280Init ==
    /\ senPc = "bme_init"
    /\ \E ok \in BOOLEAN : bmeInitFailed' = ~ok
    /\ senPc' = "bme_warmup"
    /\ UNCHANGED <<bmeCollected, bmeFailed, bmeData, adsRateFailed, adsRangeFailed,
                   a2Diff, stable_count, polls, stable, adsCollected, adsFailed,
                   adsData, adsResult, sensorChannel, sentReadings,
                   receivedReadings, updatePc, senCycle>>
    /\ UNCHANGED <<mainVars, logVars, clkVars, valVars>>

\* read_bme280: the warm-up timer.
ReadBme280Warmup ==
    /\ senPc = "bme_warmup"
    /\ senPc' = "bme_sample"
    /\ UNCHANGED <<bmeInitFailed, bmeCollected, bmeFailed, bmeData, adsRateFailed,
                   adsRangeFailed, a2Diff, stable_count, polls, stable,
                   adsCollected, adsFailed, adsData, adsResult, sensorChannel,
                   sentReadings, receivedReadings, updatePc, senCycle>>
    /\ UNCHANGED <<mainVars, logVars, clkVars, valVars>>

\* sample_environmental_data and the push of its result: a failed read_sample
\* is replaced by Bme280Data::random.
SampleEnvironmentalData ==
    /\ senPc = "bme_sample"
    /\ \E ok \in BOOLEAN :
          /\ bmeCollected' = Append(bmeCollected, IF ok THEN BmeReal ELSE BmeRandom)
          /\ bmeFailed' = IF ok THEN bmeFailed ELSE bmeFailed + 1
    /\ senPc' = "bme_wait"
    /\ UNCHANGED <<bmeInitFailed, bmeData, adsRateFailed, adsRangeFailed, a2Diff,
                   stable_count, polls, stable, adsCollected, adsFailed, adsData,
                   adsResult, sensorChannel, sentReadings, receivedReadings,
                   updatePc, senCycle>>
    /\ UNCHANGED <<mainVars, logVars, clkVars, valVars>>

\* read_bme280: the timer between samples, and after the last sample the
\* averaging and the return to read_sensor_data_task, which unwraps the Ok.
ReadBme280Wait ==
    /\ senPc = "bme_wait"
    /\ IF Len(bmeCollected) = NUMBER_OF_SAMPLES
          THEN /\ bmeData' = Average(bmeCollected, BmeFields)
               /\ bmeCollected' = <<>>
               /\ senPc' = "ads_config"
          ELSE /\ senPc' = "bme_sample"
               /\ UNCHANGED <<bmeData, bmeCollected>>
    /\ UNCHANGED <<bmeInitFailed, bmeFailed, adsRateFailed, adsRangeFailed, a2Diff,
                   stable_count, polls, stable, adsCollected, adsFailed, adsData,
                   adsResult, sensorChannel, sentReadings, receivedReadings,
                   updatePc, senCycle>>
    /\ UNCHANGED <<mainVars, logVars, clkVars, valVars>>

\* The two configuration calls of read_ads1115: a failed set_data_rate is
\* only logged, a failed set_full_scale_range returns FailedToSetAdcRange.
ConfigResult_Strict(rateOk, rangeOk) ==
    IF rateOk /\ rangeOk THEN "Ok" ELSE "FailedToSetAdcRange"

ConfigResult(rateOk, rangeOk) ==
    IF rangeOk THEN "Ok" ELSE "FailedToSetAdcRange"

\* read_ads1115 up to the stabilization wait: on Ok the wait begins, an Err is
\* returned to read_sensor_data_task, which unwraps it and panics.
ReadAds1115Config ==
    /\ senPc = "ads_config"
    /\ \E rateOk \in BOOLEAN, rangeOk \in BOOLEAN :
          /\ adsRateFailed' = ~rateOk
          /\ adsRangeFailed' = ~rangeOk
          /\ IF ConfigResult(rateOk, rangeOk) = "Ok"
                THEN /\ senPc' = "stab_poll"
                     /\ UNCHANGED adsResult
                ELSE /\ adsResult' = ConfigResult(rateOk, rangeOk)
                     /\ senPc' = "panicked"
    /\ UNCHANGED <<bmeInitFailed, bmeCollected, bmeFailed, bmeData, a2Diff,
                   stable_count, polls, stable, adsCollected, adsFailed, adsData,
                   sensorChannel, sentReadings, receivedReadings, updatePc,
                   senCycle>>
    /\ UNCHANGED <<mainVars, logVars, clkVars, valVars>>

\* The voltage of the pressure sensor moves while the wait polls it.
PressureSensorVoltageChange ==
    /\ senPc \in {"stab_poll", "stab_wait"}
    /\ \E d \in Diffs \ {a2Diff} : a2Diff' = d
    /\ UNCHANGED <<senPc, bmeInitFailed, bmeCollected, bmeFailed, bmeData,
                   adsRateFailed, adsRangeFailed, stable_count, polls, stable,
                   adsCollected, adsFailed, adsData, adsResult, sensorChannel,
                   sentReadings, receivedReadings, updatePc, senCycle>>
    /\ UNCHANGED <<mainVars, logVars, clkVars, valVars>>

\* One round of the loop of wait_for_pressure_sensor_voltage_to_stabilize up
\* to its timer: the read of A2 (unwrapped: a failed read panics), the count,
\* and the break at STABLE_POLLS, after which read_ads1115 matches the result.
StabilizePoll ==
    /\ senPc = "stab_poll"
    /\ \E readOk \in BOOLEAN :
          IF readOk
             THEN /\ stable_count' = StableCountAfter(stable_count, a2Diff)
                  /\ polls' = PollsAfter(polls, a2Diff)
                  /\ IF stable_count' = STABLE_POLLS
                        THEN IF StabilizationResult = "Ok"
                                THEN /\ stable' = TRUE
                                     /\ senPc' = "ads_sample"
                                     /\ UNCHANGED adsResult
                                ELSE /\ adsResult' = "PressureSensorVoltageNotStable"
                                     /\ senPc' = "panicked"
                                     /\ UNCHANGED stable
                        ELSE /\ senPc' = "stab_wait"
                             /\ UNCHANGED <<stable, adsResult>>
             ELSE /\ senPc' = "panicked"
                  /\ UNCHANGED <<stable_count, polls, stable, adsResult>>
    /\ UNCHANGED <<bmeInitFailed, bmeCollected, bmeFailed, bmeData, adsRateFailed,
                   adsRangeFailed, a2Diff, adsCollected, adsFailed, adsData,
                   sensorChannel, sentReadings, receivedReadings, updatePc,
                   senCycle>>
    /\ UNCHANGED <<mainVars, logVars, clkVars, valVars>>

\* The timer at the end of a round of the stabilization loop.
StabilizeWait ==
    /\ senPc = "stab_wait"
    /\ senPc' = "stab_poll"
    /\ UNCHANGED <<bmeInitFailed, bmeCollected, bmeFailed, bmeData, adsRateFailed,
                   adsRangeFailed, a2Diff, stable_count, polls, stable,
                   adsCollected, adsFailed, adsData, adsResult, sensorChannel,
                   sentReadings, receivedReadings, updatePc, senCycle>>
    /\ UNCHANGED <<mainVars, logVars, clkVars, valVars>>

\* sample_voltage_data and the push of its result: the four reads are
\* unwrapped, so a failed read panics; otherwise the sample is Ok.
SampleVoltageData ==
    /\ senPc = "ads_sample"
    /\ \/ /\ adsFailed' = adsFailed + 1
          /\ senPc' = "panicked"
          /\ UNCHANGED adsCollected
       \/ /\ \E sample \in AdsSamples : adsCollected' = Append(adsCollected, sample)
          /\ senPc' = "ads_wait"
          /\ UNCHANGED adsFailed
    /\ UNCHANGED <<bmeInitFailed, bmeCollected, bmeFailed, bmeData, adsRateFailed,
                   adsRangeFailed, a2Diff, stable_count, polls, stable, adsData,
                   adsResult, sensorChannel, sentReadings, receivedReadings,
                   updatePc, senCycle>>
    /\ UNCHANGED <<mainVars, logVars, clkVars, valVars>>

\* read_ads1115: the timer between samples, and after the last sample the
\* averaging and the return of Ok(final_data).
ReadAds1115Wait ==
    /\ senPc = "ads_wait"
    /\ IF Len(adsCollected) = NUMBER_OF_SAMPLES
          THEN /\ adsData' = Average(adsCollected, AdsFields)
               /\ adsResult' = "Ok"
               /\ adsCollected' = <<>>
               /\ senPc' = "send"
          ELSE /\ senPc' = "ads_sample"
               /\ UNCHANGED <<adsData, adsResult, adsCollected>>
    /\ UNCHANGED <<bmeInitFailed, bmeCollected, bmeFailed, bmeData, adsRateFailed,
                   adsRangeFailed, a2Diff, stable_count, polls, stable, adsFailed,
                   sensorChannel, sentReadings, receivedReadings, updatePc,
                   senCycle>>
    /\ UNCHANGED <<mainVars, logVars, clkVars, valVars>>

\* Channel::send: waits while the channel is full, then appends.
\* Channel::receive: waits while it is empty, then takes the oldest.
SensorSend(ch, reading) == Append(ch, reading)

SensorReceive_Keep(ch) == ch

SensorReceive(ch) == Tail(ch)

\* read_sensor_data_task: sender.send((bme280_data, ads1115_data)).
SendReading ==
    /\ senPc = "send"
    /\ Len(sensorChannel) < SENSOR_CHANNEL_CAPACITY
    /\ sensorChannel' = SensorSend(sensorChannel, <<bmeData, adsData>>)
    /\ sentReadings' = Append(sentReadings, <<bmeData, adsData>>)
    /\ senPc' = "done"
    /\ UNCHANGED <<bmeInitFailed, bmeCollected, bmeFailed, bmeData, adsRateFailed,
                   adsRangeFailed, a2Diff, stable_count, polls, stable,
                   adsCollected, adsFailed, adsData, adsResult, receivedReadings,
                   updatePc, senCycle>>
    /\ UNCHANGED <<mainVars, logVars, clkVars, valVars>>

\* update_task: receive_environmental_data, once.
ReceiveEnvironmentalData ==
    /\ updatePc = "waiting"
    /\ sensorChannel # <<>>
    /\ receivedReadings' = Append(receivedReadings, Head(sensorChannel))
    /\ sensorChannel' = SensorReceive(sensorChannel)
    /\ updatePc' = "received"
    /\ UNCHANGED <<senPc, bmeInitFailed, bmeCollected, bmeFailed, bmeData,
                   adsRateFailed, adsRangeFailed, a2Diff, stable_count, polls,
                   stable, adsCollected, adsFailed, adsData, adsResult,
                   sentReadings, senCycle>>
    /\ UNCHANGED <<mainVars, logVars, clkVars, valVars>>

\* Deep sleep after the reading was handled, and the next wake-up: the tasks
\* and the channel start again.
SensorSleepWake ==
    /\ updatePc = "received"
    /\ senPc = "done"
    /\ senCycle < MaxSensorCycles
    /\ senCycle' = senCycle + 1
    /\ senPc' = "bme_init"
    /\ bmeInitFailed' = FALSE
    /\ bmeCollected' = <<>>
    /\ bmeFailed' = 0
    /\ bmeData' = NoData
    /\ adsRateFailed' = FALSE
    /\ adsRangeFailed' = FALSE
    /\ a2Diff' = TOLERANCE
    /\ stable_count' = 0
    /\ polls' = <<>>
    /\ stable' = FALSE
    /\ adsCollected' = <<>>
    /\ adsFailed' = 0
    /\ adsData' = NoData
    /\ adsResult' = "none"
    /\ sensorChannel' = <<>>
    /\ sentReadings' = <<>>
    /\ receivedReadings' = <<>>
    /\ updatePc' = "waiting"
    /\ UNCHANGED <<mainVars, logVars, clkVars, valVars>>

\* The steps of read_sensor_data_task.
SensorTask ==
    \/ ReadBme280Init
    \/ ReadBme280Warmup
    \/ SampleEnvironmentalData
    \/ ReadBme280Wait
    \/ ReadAds1115Config
    \/ StabilizePoll
    \/ StabilizeWait
    \/ SampleVoltageData
    \/ ReadAds1115Wait
    \/ SendReading

SensorNext ==
    \/ SensorTask
    \/ PressureSensorVoltageChange
    \/ ReceiveEnvironmentalData
    \/ SensorSleepWake

SensorSpec == Init /\ [][SensorNext]_vars

\* The executor runs a task that can take a step, and timers expire.
SensorFairSpec == SensorSpec /\ WF_vars(SensorTask)

(***************************************************************************)
(* The collector service: POST of sensor data.                             *)
(***************************************************************************)

\* The checked fields of SensorData, in the units of the struct.
SensorDataFields ==
    {"boot_count", "run_time_in_seconds", "wifi_start_time_in_seconds",
     "temperature_in_celcius", "humidity_in_percent", "pressure_in_pascal",
     "brightness_in_percent", "battery_voltage", "pressure_sensor_voltage",
     "tank_level_in_meters", "tank_temperature_in_celcius"}

\* A payload that passes every check.
NominalSensorData ==
    [boot_count |-> 2, run_time_in_seconds |-> 5, wifi_start_time_in_seconds |-> 3,
     temperature_in_celcius |-> 25, humidity_in_percent |-> 50,
     pressure_in_pascal |-> 101325, brightness_in_percent |-> 40,
     battery_voltage |-> 4, pressure_sensor_voltage |-> 24,
     tank_level_in_meters |-> 2, tank_temperature_in_celcius |-> 20]

\* The values a field takes in the payloads that are followed: the limits of
\* its check, their neighbours outside, and the nominal value.  JSON carries
\* no NaN, so every field of a deserialized payload is a number.
SensorDataValues ==
    [boot_count |-> {0, 1, 2},
     run_time_in_seconds |-> {-1, 0, 5},
     wifi_start_time_in_seconds |-> {-1, 0, 3},
     temperature_in_celcius |-> {-51, -50, 25, 100, 101},
     humidity_in_percent |-> {-1, 0, 50, 100, 101},
     pressure_in_pascal |-> {49999, 50000, 101325, 150000, 150001},
     brightness_in_percent |-> {-1, 0, 40, 100, 101},
     battery_voltage |-> {-1, 0, 4, 15, 16},
     pressure_sensor_voltage |-> {-1, 0, 24, 32, 33},
     tank_level_in_meters |-> {-1, 0, 2, 5, 6},
     tank_temperature_in_celcius |-> {-51, -50, 20, 100, 101}]

\* The payloads that differ from the nominal one in at most two fields.
SensorDataPayloads ==
    UNION { { [NominalSensorData EXCEPT ![f] = v, ![g] = w] :
                v \in SensorDataValues[f], w \in SensorDataValues[g] } :
            f \in SensorDataFields, g \in SensorDataFields }

\* The rejections of the Json extractor that handle_sensor_data matches.
JsonRejections ==
    {"MissingJsonContentType", "JsonDataError", "JsonSyntaxError", "BytesRejection",
     "Other"}

\* SensorData::validate: the checks in the order of the function, each
\* returning its error; "Ok" when none does.
Validate_ExclusiveHumidity(d) ==
    IF d.boot_count < 1 THEN "boot_count"
    ELSE IF d.run_time_in_seconds < 0 THEN "run_time_in_seconds"
    ELSE IF d.wifi_start_time_in_seconds < 0 THEN "wifi_start_time_in_seconds"
    ELSE IF d.temperature_in_celcius < -50 \/ d.temperature_in_celcius > 100
      THEN "temperature_in_celcius"
    ELSE IF d.humidity_in_percent < 0 \/ d.humidity_in_percent >= 100
      THEN "humidity_in_percent"
    ELSE IF d.pressure_in_pascal < 50000 \/ d.pressure_in_pascal > 150000
      THEN "pressure_in_pascal"
    ELSE IF d.brightness_in_percent < 0 \/ d.brightness_in_percent > 100
      THEN "brightness_in_percent"
    ELSE IF d.battery_voltage < 0 \/ d.battery_voltage > 15 THEN "battery_voltage"
    ELSE IF d.pressure_sensor_voltage < 0 \/ d.pressure_sensor_voltage > 32
      THEN "pressure_sensor_voltage"
    ELSE IF d.tank_level_in_meters < 0 \/ d.tank_level_in_meters > 5
      THEN "tank_level_in_meters"
    ELSE IF d.tank_temperature_in_celcius < -50 \/ d.tank_temperature_in_celcius > 100
      THEN "tank_temperature_in_celcius"
    ELSE "Ok"

Validate(d) ==
    IF d.boot_count < 1 THEN "boot_count"
    ELSE IF d.run_time_in_seconds < 0 THEN "run_time_in_seconds"
    ELSE IF d.wifi_start_time_in_seconds < 0 THEN "wifi_start_time_in_seconds"
    ELSE IF d.temperature_in_celcius < -50 \/ d.temperature_in_celcius > 100
      THEN "temperature_in_celcius"
    ELSE IF d.humidity_in_percent < 0 \/ d.humidity_in_percent > 100
      THEN "humidity_in_percent"
    ELSE IF d.pressure_in_pascal < 50000 \/ d.pressure_in_pascal > 150000
      THEN "pressure_in_pascal"
    ELSE IF d.brightness_in_percent < 0 \/ d.brightness_in_percent > 100
      THEN "brightness_in_percent"
    ELSE IF d.battery_voltage < 0 \/ d.battery_voltage > 15 THEN "battery_voltage"
    ELSE IF d.pressure_sensor_voltage < 0 \/ d.pressure_sensor_voltage > 32
      THEN "pressure_sensor_voltage"
    ELSE IF d.tank_level_in_meters < 0 \/ d.tank_level_in_meters > 5
      THEN "tank_level_in_meters"
    ELSE IF d.tank_temperature_in_celcius < -50 \/ d.tank_temperature_in_celcius > 100
      THEN "tank_temperature_in_celcius"
    ELSE "Ok"

\* The status handle_sensor_data answers a rejection of the extractor with.
RejectionStatus(rejection) ==
    CASE rejection = "MissingJsonContentType" -> 400
      [] rejection \in {"JsonDataError", "JsonSyntaxError", "BytesRejection"} -> 406
      [] OTHER -> 500

\* handle_sensor_data for a request whose body could not be extracted.
HandleSensorDataRejected ==
    /\ \E rejection \in JsonRejections :
          /\ request' = [kind |-> "rejected", rejection |-> rejection]
          /\ httpStatus' = RejectionStatus(rejection)
    /\ validation' = "none"
    /\ UNCHANGED <<device_time_mappings, translation>>
    /\ UNCHANGED <<mainVars, logVars, clkVars, senVars>>

\* handle_sensor_data for a deserialized payload: BAD_REQUEST when validate
\* returns an error, else the metrics are recorded and the answer is OK.
HandleSensorData ==
    /\ \E data \in SensorDataPayloads :
          /\ request' = [kind |-> "payload", data |-> data]
          /\ validation' = Validate(data)
          /\ httpStatus' = IF Validate(data) = "Ok" THEN 200 ELSE 400
    /\ UNCHANGED <<device_time_mappings, translation>>
    /\ UNCHANGED <<mainVars, logVars, clkVars, senVars>>

ServiceSpec == Init /\ [][HandleSensorData \/ HandleSensorDataRejected]_vars

\* handle_device_timing for a deserialized payload: the mapping of the
\* device is replaced. The timestamp of the message is now().ticks() at the
\* first network contact, in microseconds.
HandleDeviceTiming ==
    /\ \E d \in Devices, b \in 1..MaxBootCount, ms \in 0..MaxStamp :
          device_time_mappings' =
              [device_time_mappings EXCEPT
                 ![d] = [boot_count |-> b, first_tick |-> ms * 1000]]
    /\ UNCHANGED <<request, validation, httpStatus, translation>>
    /\ UNCHANGED <<mainVars, logVars, clkVars, senVars>>

\* handle_log_data: the timestamp of an entry. timestamp - first_tick is a
\* u64 subtraction: below zero it panics in a build with overflow checks and
\* wraps otherwise, and the wrapped value cast to i64 is the negative
\* difference.
LogTranslation(mapping, d, b, ts) ==
    IF mapping # NoMapping /\ mapping.boot_count = b
      THEN [kind |-> IF ts < mapping.first_tick /\ overflowChecks
                       THEN "panic" ELSE "translated",
            device_id |-> d, boot_count |-> b, timestamp |-> ts,
            mapping |-> mapping, tick_diff |-> ts - mapping.first_tick]
      ELSE [kind |-> "now", device_id |-> d, boot_count |-> b, timestamp |-> ts,
            mapping |-> mapping, tick_diff |-> 0]

\* handle_log_data for a request whose body could not be extracted.
HandleLogDataRejected ==
    /\ \E rejection \in JsonRejections :
          translation' = [kind |-> "rejected", status |-> RejectionStatus(rejection)]
    /\ UNCHANGED <<request, validation, httpStatus, device_time_mappings>>
    /\ UNCHANGED <<mainVars, logVars, clkVars, senVars>>

\* handle_log_data for a deserialized list of one entry: BAD_REQUEST for an
\* unknown level, else the entry is logged with its translated timestamp.
\* The timestamp of an entry is HttpLogger.current_time_ms when it was
\* logged, in milliseconds.
HandleLogData ==
    /\ \E d \in Devices, b \in 1..MaxBootCount, ts \in 0..MaxStamp,
          level \in {"error", "warn", "info", "debug", "trace", "fatal"} :
          translation' =
              IF level \in {"error", "warn", "info", "debug", "trace"}
                THEN LogTranslation(device_time_mappings[d], d, b, ts)
                ELSE [kind |-> "rejected", status |-> 400]
    /\ UNCHANGED <<request, validation, httpStatus, device_time_mappings>>
    /\ UNCHANGED <<mainVars, logVars, clkVars, senVars>>

\* The collector's timing and log endpoints.
TimingSpec ==
    Init /\ [][HandleDeviceTiming \/ HandleLogData \/ HandleLogDataRejected]_vars

\* The values of MonitorTaskResult.
MonitorTaskResults == {"Success", "ConnectionFailure", "InternalError"}

\* status_sender.try_send(m), for any result m.
ChanSend ==
    /\ Len(published) < MaxPublished
    /\ \E m \in MonitorTaskResults :
          /\ channel' = TrySend(channel, m)
          /\ published' = Append(published, m)
    /\ UNCHANGED <<pc, bootVars, steps, radioVars, observedDisconnected, wifiVars,
                   discVars, monPc, consecutive_failures, lastPolls, resVars>>
    /\ UNCHANGED <<logVars, clkVars, senVars, valVars>>

\* monitor_receiver.try_receive() in check_wifi_status.
ChanReceive ==
    /\ channel # <<>>
    /\ channel' = TryReceive(channel)
    /\ UNCHANGED <<pc, bootVars, steps, radioVars, observedDisconnected, wifiVars,
                   discVars, monPc, consecutive_failures, lastPolls, published, resVars>>
    /\ UNCHANGED <<logVars, clkVars, senVars, valVars>>

ChanNext == ChanSend \/ ChanReceive

\* Senders and the receiver of the channel, with no assumption on who sends
\* when.
ChanSpec == Init /\ [][ChanNext]_vars

\* ------------------------------------------------------------------ claims
Has(st, e) == \E i \in 1..Len(st) : st[i] = e

IsPrefix(a, b) == Len(a) <= Len(b) /\ a = SubSeq(b, 1, Len(a))

DisconnectFailed == disconnectResult \in {"Disconnect", "Verification"}

ConnectFailed == wifiResult \in {"WifiConnectionFailed", "NetworkTaskSpawnFailed"}

\* C1: whenever the device is in deep sleep, the radio is not active: the
\* controller was never started in this cycle, or the latest status
\* observation said it is not connected.
C1_SleepOnlyWithRadioOff ==
    pc = "asleep" => (~started \/ observedDisconnected)

\* C2: an error from disconnect_from_wifi leads to the software reset and
\* never to deep sleep, and deep sleep after a successful connect is entered
\* only after disconnect_from_wifi returned Ok.
C2_ResetOnDisconnectError ==
    /\ DisconnectFailed => pc \in {"d_returned", "reset"} /\ ~Has(steps, "Asleep")
    /\ pc = "reset" => DisconnectFailed
    /\ pc = "asleep" /\ wifiResult = "Ok" => disconnectResult = "Ok"

C2_Witness == pc = "reset" /\ disconnectResult = "Verification"

\* C3: connect_to_wifi makes at most WIFI_RECONNECT_ATTEMPTS attempts; it
\* returns Ok only when an attempt did not fail, and when all its attempts
\* failed it returns WifiConnectionFailed.
C3_BoundedAttempts ==
    /\ connectCalls <= WIFI_RECONNECT_ATTEMPTS
    /\ attempts <= connectCalls
    /\ wifiResult = "Ok" => connectCalls = attempts + 1
    /\ wifiResult # "none" /\ connectCalls >= 1 /\ attempts = connectCalls
         => wifiResult = "WifiConnectionFailed" /\ attempts = WIFI_RECONNECT_ATTEMPTS

C3_Witness ==
    wifiResult = "WifiConnectionFailed" /\ connectCalls = WIFI_RECONNECT_ATTEMPTS

\* C4: every call of connect_to_wifi eventually returns, whatever the network
\* does.
C4_ConnectReturns == (pc = "w_create") ~> (pc = "w_returned")

\* C5: connect_to_wifi returns Ok only at the end of an attempt that went, in
\* this order, through: radio started, connect succeeded, link up, IPv4
\* address acquired, stabilization delay, is_connected() = Ok(true).
C5_OkOnlyAfterFullAttempt ==
    wifiResult = "Ok" =>
        /\ attemptLog = <<"started", "connect_ok", "link_up", "address", "delay", "true">>
        /\ started

C5_Witness == wifiResult = "Ok" /\ attempts = 2 /\ pc = "w_returned"

\* C6: from the increment at the start of main to the end of the cycle, on
\* every path, the persisted boot count is the boot count at wake-up plus 1.
C6_BootCountPlusOne ==
    /\ pc = "boot" => bootCount = bootCountAtWake
    /\ pc # "boot" => bootCount = bootCountAtWake + 1

C6_Witness == pc = "reset" /\ bootCountAtWake = 1 /\ bootCount = 2

\* The cycle went to sleep without taking any fatal branch.
CompletedCycle ==
    /\ pc = "asleep"
    /\ loggerResult = "Ok"
    /\ wifiResult = "Ok"
    /\ monPc # "none"
    /\ timingResult = "Ok"
    /\ sensorResult = "Ok"
    /\ lastCheck = "Ok"
    /\ disconnectResult = "Ok"

\* The operations of a cycle, in program order, up to the disconnect.
ProgramOrder ==
    <<"Boot", "LoggingReady", "WifiConnect", "Connected", "MonitorSpawned",
      "TimingPost", "LogFlush", "Sampling", "Transmitted", "LogFlush">>

IsOperation(e) == e \notin {"Disconnect", "Disconnected", "Asleep", "Reset"}

IsClaimedStep(e) ==
    e \in {"Boot", "LoggingReady", "Connected", "ClockReady", "Sampling", "Transmitted",
           "LogFlush", "ClockPersist", "Disconnected", "Asleep"}

C8_LoggerFailureSleeps ==
    loggerResult = "Err" =>
        /\ pc = "asleep"
        /\ steps = <<"Boot", "Asleep">>
        /\ ~started /\ connectCalls = 0 /\ wifiResult = "none"
        /\ monPc = "none"
        /\ timingResult = "none" /\ metricsResult = "none" /\ flushResults = <<>>
        /\ sensorResult = "none"

C8_Witness == loggerResult = "Err" /\ pc = "asleep"

\* C9: when connect_to_wifi returns an error the cycle is aborted to deep
\* sleep: no monitor task, no timing POST, no log flush, no sensor read, no
\* metrics POST.
C9_ConnectFailureSleeps ==
    ConnectFailed =>
        /\ pc \in {"w_returned", "asleep"}
        /\ monPc = "none"
        /\ timingResult = "none" /\ metricsResult = "none" /\ flushResults = <<>>
        /\ sensorResult = "none"
        /\ \A e \in {"Connected", "MonitorSpawned", "TimingPost", "LogFlush", "Sampling",
                      "Transmitted", "Disconnect", "Reset"} : ~Has(steps, e)

C9_Witness ==
    /\ pc = "asleep"
    /\ wifiResult = "WifiConnectionFailed"
    /\ attempts = WIFI_RECONNECT_ATTEMPTS

\* C10: a failed timing POST or metrics POST is never fatal: unless the
\* monitor reported a failure or the sensor read failed, the cycle still
\* performs sensor sampling, the metrics POST and both log flushes before it
\* disconnects.
C10_PostFailureNotFatal ==
    /\ pc \in {"asleep", "reset"}
    /\ timingResult = "Err" \/ metricsResult = "Err"
    /\ lastCheck = "Ok"
    /\ sensorResult # "Err"
    => /\ Has(steps, "Sampling")
       /\ Has(steps, "Transmitted")
       /\ Len(flushResults) = 2

\* A non-Success monitor result is waiting in the channel.
FailureSignalled == channel # <<>> /\ channel[1] # "Success"

RECURSIVE TrailingFalse(_)
TrailingFalse(sq) ==
    IF sq = <<>> \/ sq[Len(sq)] # "false" THEN 0
    ELSE 1 + TrailingFalse(SubSeq(sq, 1, Len(sq) - 1))

\* C12: the monitor sends ConnectionFailure exactly when its latest
\* MAX_CONSECUTIVE_FAILURES polls all said not connected; a connected poll
\* resets the count, so the count is the number of not-connected polls since
\* the latest connected one.
C12_SignalAfterConsecutiveFailures ==
    /\ Has(published, "ConnectionFailure")
         <=> TrailingFalse(lastPolls) = MAX_CONSECUTIVE_FAILURES
    /\ monPc = "polling"
         => /\ consecutive_failures = TrailingFalse(lastPolls)
            /\ consecutive_failures < MAX_CONSECUTIVE_FAILURES
            /\ published = <<>>

C12_Witness ==
    /\ published = <<"ConnectionFailure">>
    /\ lastPolls = <<"false", "false">>
    /\ monPc = "exited"

IsFlush(e) == e = "LogFlush"

EndOfCycle == pc \in {"d_check", "d_verify", "d_returned", "asleep", "reset"}

\* C19: each flush checkpoint calls send_logs_to_server exactly once; whatever
\* the result, the orchestrator goes on to the next step (the status check
\* after the first flush, the disconnect after the last): a failed flush is
\* neither retried nor a reason to end the cycle.
C19_OneFlushPerCheckpoint ==
    /\ Len(flushResults) = Len(SelectSeq(steps, IsFlush))
    /\ Len(flushResults) <= 2
    /\ Len(flushResults) = 1
         => \/ pc \in {"m_check3", "m_sensor", "m_sensor_wait", "m_check4",
                       "m_metrics", "m_check5", "m_flush2"}
            \/ EndOfCycle
    /\ Has(steps, "Sampling") => Len(flushResults) >= 1
    /\ Len(flushResults) = 2 => EndOfCycle /\ Has(steps, "Transmitted")
    /\ EndOfCycle /\ Len(flushResults) = 1
         => lastCheck = "Err" \/ sensorResult = "Err"

C19_Witness == CompletedCycle /\ flushResults = <<"Err", "Err">>

Backoff(f) ==
    IF BASE_RETRY_INTERVAL * 2^f < MAX_RETRY_INTERVAL
      THEN BASE_RETRY_INTERVAL * 2^f ELSE MAX_RETRY_INTERVAL

\* C14: the ring never holds more than MAX_STORED_LOGS entries, and once more
\* than MAX_STORED_LOGS entries have been logged in a wake cycle with no
\* drain, it holds exactly the latest MAX_STORED_LOGS of them, oldest first.
C14_RingKeepsLatest ==
    /\ Len(ring) <= MAX_STORED_LOGS
    /\ tlog = "idle" /\ commandsSent = 0 /\ nextId - bootFirst > MAX_STORED_LOGS
         => ring = [i \in 1..MAX_STORED_LOGS |-> nextId - MAX_STORED_LOGS - 1 + i]

\* C15 (as stated): after f failed deliveries with no successful one between
\* them the retry interval is min(b * 2^f, c).
C15_BackoffOfFailures == retry_interval = Backoff(failures)

\* C15 (amended): the retry interval is min(b * 2^f, c) for the f failed
\* deliveries since the interval was last set to b, which happens at task
\* start, on a successful delivery and on every NetworkAvailable command.
C15_BackoffSinceBase ==
    /\ retry_interval = Backoff(sinceBase)
    /\ failures = 0 => retry_interval = BASE_RETRY_INTERVAL

C15_Witness ==
    /\ sinceBase = MaxFailures
    /\ retry_interval = MAX_RETRY_INTERVAL

\* C16: when a delivery succeeds and the staging batch is emptied, every
\* entry that was in the batch has been part of a successful POST.
C16_ClearedOnlyIfPosted ==
    [][temp # <<>> /\ temp' = <<>> /\ cycle' = cycle
         => Ids(temp) \subseteq delivered']_vars

\* C17: an entry of a successful POST is never in a later POST: it is in
\* neither the ring nor the staging batch any more, and the slice of a POST
\* in flight has no delivered entry.
C17_AtMostOnce ==
    /\ delivered \cap (Ids(ring) \cup Ids(temp)) = {}
    /\ lpc = "l_send" => Ids(LogsSlice(temp)) \cap delivered = {}

C17_Witness ==
    /\ lpc = "l_send"
    /\ delivered # {}
    /\ failures > 0

\* C18: after a failed delivery the entries of the failed POST stay in the
\* staging batch until they are delivered, through deep sleep too.
C18_FailedEntriesKept ==
    [][failures > 0
         => \A e \in Ids(LogsSlice(temp)) : e \in Ids(temp') \/ e \in delivered']_vars

\* C20: while a store_log call is between its eviction and its push_back, or
\* take_logs is between two iterations, nothing else changes the ring.
C20_NoInterleaving ==
    [][\/ tlog = "push" /\ tlog' = "push"
       \/ lpc = "l_take" /\ lpc' = "l_take" /\ takeCount' = takeCount
         => ring' = ring]_vars

\* C21: next_rounded_wakeup(now, p) is a multiple of p with
\* now < result <= now + p, so the duration to it is in (0, p]; 09:46:12 gives
\* 09:47:00 for a minute, 09:50:00 for five minutes and 10:00:00 for an hour.
C21_RoundedWakeup ==
    wakeup # NoWakeup
      => /\ wakeup.then % wakeup.period = 0
         /\ wakeup.now < wakeup.then
         /\ wakeup.then <= wakeup.now + wakeup.period
         /\ 0 < wakeup.duration /\ wakeup.duration <= wakeup.period
         /\ wakeup.now = 35172 /\ wakeup.period = 60 => wakeup.then = 35220
         /\ wakeup.now = 35172 /\ wakeup.period = 300 => wakeup.then = 35400
         /\ wakeup.now = 35172 /\ wakeup.period = 3600 => wakeup.then = 36000

C21_Witness ==
    wakeup = [now |-> 35172, period |-> 300, then |-> 35400, duration |-> 228]

\* C22: the clock that from_rtc_memory makes reads, at that moment, the
\* now_as_epoch() of the latest save_to_rtc_memory plus its expected sleep
\* duration, and has the offset of the clock that was saved.
C22_RestoreAfterSleep ==
    [][clock' # clock /\ clockSource' = "rtc"
         => /\ NowAsEpoch(clock', uptime') = (savedNow + savedSleep) % Modulus
            /\ clock'.offset = savedOffset]_vars

C22_Witness ==
    /\ clockSource = "rtc"
    /\ restoredAt > 0
    /\ clkCycle > 0
    /\ clock.offset = 43200
    /\ NowAsEpoch(clock, restoredAt) = savedNow + savedSleep

\* C23: successive values of now_as_epoch of the clock of a wake cycle never
\* decrease and are never negative.
C23_Monotonic ==
    [][lastNow' # -1 => lastNow' >= 0 /\ lastNow' >= lastNow]_vars

C23_Witness ==
    /\ lastNow > 0
    /\ clock # NoClock
    /\ lastNow < NowAsEpoch(clock, uptime)

\* C24: a clock is restored from BOOT_TIME only when the persisted epoch is
\* non-zero and the latest synchronization is younger than the sync interval.
C24_RestoreOnlyWhenFresh ==
    [][clock' # clock /\ clockSource' = "rtc"
         => rtcEpoch # 0 /\ sinceSync < SyncInterval]_vars

(***************************************************************************)
(* The acquisition pipeline.                                               *)
(***************************************************************************)

\* C25: when the stabilization wait polls and the pressure-sensor voltage
\* stays outside the tolerance from then on, read_ads1115 eventually reports
\* PressureSensorVoltageNotStable.
C25_StabilizationTerminates ==
    []((senPc = "stab_poll" /\ [](~InTolerance(a2Diff) /\ senPc # "panicked"))
          => <>(adsResult = "PressureSensorVoltageNotStable"))

\* C26: the stabilization wait has succeeded exactly when the latest
\* STABLE_POLLS polls were all within the tolerance; nothing is sampled from
\* the ADS1115 before that, and a reading that failed as not stable has no
\* samples.
C26_StableAfterTenPolls ==
    /\ stable <=> /\ Len(polls) = STABLE_POLLS
                  /\ \A i \in 1..Len(polls) : polls[i] < TOLERANCE
    /\ (adsCollected # <<>> \/ adsFailed > 0 \/ adsData # NoData) => stable
    /\ adsResult = "PressureSensorVoltageNotStable"
          => adsCollected = <<>> /\ adsFailed = 0 /\ adsData = NoData

\* The wait succeeded after STABLE_POLLS polls within the tolerance and two
\* samples of the ADS1115 were taken since.
C26_Witness ==
    /\ stable
    /\ Len(adsCollected) = 2
    /\ senCycle = 0

\* C27: on both paths a failed sample adds one (synthetic) sample and does
\* not end the task, and a reading is reduced from NUMBER_OF_SAMPLES samples.
C27_FailedSampleReplaced ==
    [][/\ bmeFailed' > bmeFailed
             => Len(bmeCollected') = Len(bmeCollected) + 1 /\ senPc' # "panicked"
       /\ adsFailed' > adsFailed
             => Len(adsCollected') = Len(adsCollected) + 1 /\ senPc' # "panicked"
       /\ (bmeData' # bmeData /\ bmeData' # NoData)
             => Len(bmeCollected) = NUMBER_OF_SAMPLES
       /\ (adsData' # adsData /\ adsData' # NoData)
             => Len(adsCollected) = NUMBER_OF_SAMPLES]_vars

\* The sum of a field over samples, from the first sample on.
RECURSIVE FieldTotal(_, _)
FieldTotal(samples, field) ==
    IF samples = <<>> THEN 0
    ELSE Head(samples)[field] + FieldTotal(Tail(samples), field)

\* C28: every field of a reading that read_bme280 or read_ads1115 produces is
\* the sum of the field over the collected samples divided by their number,
\* which is not zero.
C28_AveragedReading ==
    [][/\ (bmeData' # bmeData /\ bmeData' # NoData)
             => /\ Len(bmeCollected) # 0
                /\ DOMAIN bmeData' = BmeFields
                /\ \A f \in BmeFields :
                      bmeData'[f] = [sum |-> FieldTotal(bmeCollected, f),
                                     by |-> Len(bmeCollected)]
       /\ (adsData' # adsData /\ adsData' # NoData)
             => /\ Len(adsCollected) # 0
                /\ DOMAIN adsData' = AdsFields
                /\ \A f \in AdsFields :
                      adsData'[f] = [sum |-> FieldTotal(adsCollected, f),
                                     by |-> Len(adsCollected)]]_vars

\* Both readings were produced from samples that differ: three delivered and
\* two synthetic samples of the BME280, two and three of the two ADS1115
\* samples.
C28_Witness ==
    /\ bmeData # NoData
    /\ adsData # NoData
    /\ bmeData.temperature = [sum |-> 95, by |-> 5]
    /\ adsData.battery_voltage = [sum |-> 57, by |-> 5]

\* C29 as stated: no failed initialization or configuration ends the reading;
\* after a failed initialize_bme280 the BME280 is sampled, after a failed
\* set_data_rate or set_full_scale_range the ADS1115 reading goes on.
C29_ConfigFailureContinues ==
    [][/\ (bmeInitFailed' /\ ~bmeInitFailed) => senPc' = "bme_warmup"
       /\ ((adsRateFailed' /\ ~adsRateFailed) \/ (adsRangeFailed' /\ ~adsRangeFailed))
             => senPc' = "stab_poll" /\ adsResult' = "none"]_vars

\* C29, amended: a failed initialize_bme280 and a failed set_data_rate do not
\* end the reading; a failed set_full_scale_range, and nothing else, ends
\* read_ads1115 with FailedToSetAdcRange before any poll or sample.
C29_OnlyRangeFailureAborts ==
    /\ adsResult = "FailedToSetAdcRange" <=> adsRangeFailed
    /\ adsRangeFailed
          => /\ senPc = "panicked"
             /\ polls = <<>>
             /\ adsCollected = <<>>
             /\ adsFailed = 0
             /\ adsData = NoData
    /\ senPc \in {"ads_config", "stab_poll", "stab_wait", "ads_sample", "ads_wait",
                  "send", "done"}
          => bmeData # NoData
    /\ senPc \in {"send", "done"} => adsData # NoData /\ adsResult = "Ok"

\* A reading was completed and sent although initialize_bme280 and
\* set_data_rate had failed.
C29_Witness ==
    /\ bmeInitFailed
    /\ adsRateFailed
    /\ ~adsRangeFailed
    /\ senPc = "done"
    /\ Len(sentReadings) = 1

\* C30: in a wake cycle at most one reading is sent; what was sent is what
\* was received followed by what is in the channel, so nothing is lost,
\* duplicated or reordered; the consumer receives at most once.
C30_OneReadingOnce ==
    /\ Len(sentReadings) <= 1
    /\ Len(receivedReadings) <= 1
    /\ sentReadings = receivedReadings \o sensorChannel
    /\ updatePc = "received" <=> Len(receivedReadings) = 1
    /\ senPc = "done" <=> Len(sentReadings) = 1

\* The reading of the second wake cycle was sent and received.
C30_Witness ==
    /\ senCycle = 1
    /\ Len(receivedReadings) = 1
    /\ receivedReadings = sentReadings
    /\ sensorChannel = <<>>

(***************************************************************************)
(* disconnect_from_wifi, called once or again.                             *)
(***************************************************************************)

\* C31: a call of disconnect_from_wifi whose first is_connected() says the
\* controller is not connected (Ok(false) or the Disconnected error) returns
\* Ok at that check without calling disconnect(); a call made after a call
\* that returned Ok calls disconnect() never and returns Ok, unless the
\* status it got last was an error other than Disconnected.
C31_DisconnectIdempotent ==
    [][/\ (/\ pc = "d_check"
           /\ retries = 0
           /\ (pc' # pc \/ retries' # retries)
           /\ SaysDisconnected(firstStatus'))
          => /\ pc' = "d_returned"
             /\ disconnectResult' = "Ok"
             /\ disconnectCalls' = disconnectCalls
       /\ (pc # "d_returned" /\ pc' = "d_returned" /\ previousResult = "Ok")
          => /\ disconnectCalls' = callsAtStart
             /\ disconnectResult' = "Ok" \/ lastStatus' = "ErrOther"]_vars

\* The second call returned Ok at its first check; the first call had
\* disconnected a connected controller.
C31_Witness ==
    /\ invocations = 2
    /\ previousResult = "Ok"
    /\ pc = "d_returned"
    /\ disconnectResult = "Ok"
    /\ firstStatus = "ErrDisconnected"
    /\ callsAtStart = 1
    /\ disconnectCalls = 1

\* C32: a call of disconnect_from_wifi calls disconnect() at most
\* MAX_DISCONNECT_RETRIES times and returns; it has returned Ok exactly when
\* the latest status it got said the controller is not connected, and an
\* error when that status was connected or unknown.
C32_BoundedDisconnect ==
    /\ [](/\ retries <= MAX_DISCONNECT_RETRIES
          /\ disconnectCalls - callsAtStart <= MAX_DISCONNECT_RETRIES
          /\ pc = "d_returned"
                => /\ disconnectResult \in {"Ok", "Disconnect", "Verification"}
                   /\ disconnectResult = "Ok" <=> SaysDisconnected(lastStatus))
    /\ (pc = "d_check" ~> pc = "d_returned")

\* The call gave up after MAX_DISCONNECT_RETRIES calls of disconnect() that
\* left the controller connected.
C32_Witness ==
    /\ pc = "d_returned"
    /\ disconnectResult = "Verification"
    /\ disconnectCalls - callsAtStart = MAX_DISCONNECT_RETRIES
    /\ lastStatus = "true"

(***************************************************************************)
(* The collector service.                                                  *)
(***************************************************************************)

\* The inclusive range of every checked field; run time and wifi start time
\* have no upper limit.
FieldFloor ==
    [boot_count |-> 1, run_time_in_seconds |-> 0, wifi_start_time_in_seconds |-> 0,
     temperature_in_celcius |-> -50, humidity_in_percent |-> 0,
     pressure_in_pascal |-> 50000, brightness_in_percent |-> 0, battery_voltage |-> 0,
     pressure_sensor_voltage |-> 0, tank_level_in_meters |-> 0,
     tank_temperature_in_celcius |-> -50]

FieldCeiling ==
    [temperature_in_celcius |-> 100, humidity_in_percent |-> 100,
     pressure_in_pascal |-> 150000, brightness_in_percent |-> 100,
     battery_voltage |-> 15, pressure_sensor_voltage |-> 32,
     tank_level_in_meters |-> 5, tank_temperature_in_celcius |-> 100]

FieldInRange(d, f) ==
    /\ d[f] >= FieldFloor[f]
    /\ f \in DOMAIN FieldCeiling => d[f] <= FieldCeiling[f]

\* The order in which validate makes its checks.
CheckOrder ==
    <<"boot_count", "run_time_in_seconds", "wifi_start_time_in_seconds",
      "temperature_in_celcius", "humidity_in_percent", "pressure_in_pascal",
      "brightness_in_percent", "battery_voltage", "pressure_sensor_voltage",
      "tank_level_in_meters", "tank_temperature_in_celcius">>

DisconnectPcs == {"d_check", "d_verify", "d_returned", "asleep", "reset"}

CheckPcs == {CheckPc(k) : k \in 1..5}

\* C34: the check_wifi_status call that returns an error is followed by
\* disconnect_from_wifi, and from then on the cycle only disconnects and
\* sleeps or resets: no POST, no flush, no sensor read, no connect.  A
\* check_wifi_status call is always able to return, and with the channel
\* empty it returns Ok.
C34_NothingAfterFailedCheck ==
    [][/\ (lastCheck # "Err" /\ lastCheck' = "Err") => pc' = "d_check"
       /\ (lastCheck = "Err" /\ lastCheck' = "Err")
             => /\ pc' \in DisconnectPcs
                /\ UNCHANGED <<timingResult, sensorResult, metricsResult, flushResults,
                               wifiResult, connectCalls>>
                /\ SelectSeq(steps', IsOperation) = SelectSeq(steps, IsOperation)
       /\ pc \in CheckPcs => ENABLED (\E k \in 1..5 : MainCheck(k))
       /\ (pc \in CheckPcs /\ pc' # pc /\ channel = <<>>)
             => lastCheck' = "Ok" /\ pc' \notin DisconnectPcs]_vars

\* The second check found the failure the monitor had signalled, and the
\* cycle ended asleep without the log flush, the sensor read or the metrics.
C34_Witness ==
    /\ pc = "asleep"
    /\ lastCheck = "Err"
    /\ timingResult = "Ok"
    /\ flushResults = <<>>
    /\ sensorResult = "none"
    /\ metricsResult = "none"
    /\ disconnectResult = "Ok"

\* C35: the monitor task sends at most one result in a wake cycle and ends
\* with it; the channel is empty when it sends, so the result is taken by the
\* channel and not dropped.
C35_MonitorSendsOnce ==
    [][/\ (published' # published /\ published' # <<>>)
             => /\ published = <<>>
                /\ channel = <<>>
                /\ channel' = published'
                /\ monPc' = "exited"
       /\ monPc = "exited" /\ monPc' = "exited" => published' = published]_vars

\* The monitor sent ConnectionFailure and ended; the orchestrator has not
\* read the channel yet.
C35_Witness ==
    /\ monPc = "exited"
    /\ published = <<"ConnectionFailure">>
    /\ channel = <<"ConnectionFailure">>
    /\ consecutive_failures = MAX_CONSECUTIVE_FAILURES


\* Shutdown is in the command channel or has been taken from it.
ShutdownAccepted ==
    shutdown_requested \/ \E i \in DOMAIN commands : commands[i] = "Shutdown"

\* C36: once Shutdown has been accepted on the command channel, logger_task
\* eventually signals ShutdownComplete and leaves its loop, whatever the
\* deliveries do.
C36_ShutdownCompletes ==
    ShutdownAccepted ~> (lpc = "l_exit" /\ status = "ShutdownComplete")


\* C39: Clock::new never underflows: no clock construction panics, and the
\* boot time of every clock is the time it was given less the uptime at
\* that moment, with no wrap-around, for the epochs restored from RTC memory
\* and for the timestamps of the time server.
C39_ClockNewNoUnderflow ==
    /\ ~clockPanicked
    /\ clock # NoClock => clock.boot_time + restoredAt < Modulus



\* Smallest of three numbers.
Min3(a, b, c) ==
    IF a <= b /\ a <= c THEN a ELSE IF b <= c THEN b ELSE c

\* C37: take_logs moves min(max_count, ring length, free capacity of dest)
\* entries from the front of the ring to the end of dest in their order and
\* returns that count; ring and dest together hold the same entries as
\* before, so an entry that did not fit into dest is back at the front of
\* the ring.
C37_TakeLogsMoves ==
    taken # NoTake
      => LET n == Min3(taken.max_count, Len(taken.ring),
                       MAX_STORED_LOGS - Len(taken.dest))
         IN /\ taken.count = n
            /\ taken.dest_after = taken.dest \o SubSeq(taken.ring, 1, n)
            /\ taken.ring_after = SubSeq(taken.ring, n + 1, Len(taken.ring))
            /\ taken.dest_after \o taken.ring_after = taken.dest \o taken.ring

\* A call that stopped because dest was full: two entries moved, the third
\* went back to the front of the ring although max_count allowed it.
C37_Witness ==
    /\ taken # NoTake
    /\ taken.ring = <<1, 2, 1>>
    /\ Len(taken.dest) = MAX_STORED_LOGS - 2
    /\ taken.max_count = 3
    /\ taken.count = 2
    /\ taken.ring_after = <<1>>
    /\ taken.dest_after = taken.dest \o <<1, 2>>

\* A step of logger_task that starts a delivery attempt: the network stack is
\* asked for, and the send begins or the network is marked unavailable.
AttemptStep ==
    /\ lpc = "l_decide"
    /\ lpc' = "l_send" \/ network_available' # network_available

\* C38 (as stated): a delivery attempt starts only with the network marked
\* available, a non-empty staging batch and the retry interval elapsed since
\* the previous attempt, and never sooner after the previous attempt than
\* the retry interval that was in force when that attempt was over.
C38_SpacedByEarlierInterval ==
    [][AttemptStep
         => /\ network_available
            /\ temp # <<>>
            /\ sinceAttempt >= retry_interval
            /\ sinceAttempt >= intervalAfter]_vars

\* C38 (amended): a delivery attempt starts only with the network marked
\* available, a non-empty staging batch and the current retry interval
\* elapsed since the previous attempt; the current interval is the one in
\* force after the previous attempt, or the base interval when a
\* NetworkAvailable command has reset it since.
C38_SpacedByCurrentInterval ==
    [][AttemptStep
         => /\ network_available
            /\ temp # <<>>
            /\ sinceAttempt >= retry_interval
            /\ retry_interval \in {intervalAfter, BASE_RETRY_INTERVAL}]_vars

\* A delivery is in flight that started sooner than the interval the failed
\* attempt before it had left.
C38_Witness ==
    /\ lpc = "l_send"
    /\ sinceAttempt = 0
    /\ retry_interval = BASE_RETRY_INTERVAL
    /\ intervalAfter > BASE_RETRY_INTERVAL


\* A log entry went through the timestamp calculation of handle_log_data.
Translated == translation.kind \in {"translated", "now", "panic"}

\* C40: handle_log_data translates the timestamp of a log entry exactly
\* when the device's mapping, the one of its latest timing message, has the
\* entry's boot_count, and then timestamp - first_tick does not underflow:
\* the handler does not panic and the difference is not below zero.
C40_TranslationNeverUnderflows ==
    Translated
      => /\ translation.kind = "now"
               <=> ~(/\ translation.mapping # NoMapping
                     /\ translation.mapping.boot_count = translation.boot_count)
         /\ translation.kind # "panic"
         /\ translation.tick_diff >= 0

====
